---- MODULE Spec2Model ----
(***************************************************************************)
(* A model of safe_transaction_service/history/models.py: the block and    *)
(* transaction store, the internal-transaction (trace) store with its      *)
(* decode queue, the Safe-Status snapshots and the monitored-address scan  *)
(* cursor.  Every operation of a manager, queryset or model is one action  *)
(* or operator carrying the name it has in the source.                     *)
(*                                                                         *)
(* A nullable column is modelled as a tuple: <<>> is NULL, <<v>> is v.     *)
(***************************************************************************)
EXTENDS Integers, Sequences, FiniteSets, TLC

VARIABLES
    cursor,       \* MonitoredAddress rows: address -> nullable cursor column
    cursorCall,   \* the last call on the monitored addresses and what it returned
    head,         \* the node: ethereum_client.current_block_number
    chain,        \* the node: height -> fork the block at that height belongs to
    nodeTx,       \* the node: tx hash -> what the node answers for it
    blocks,       \* EthereumBlock rows
    txs,          \* EthereumTx rows
    call,         \* the call on the block/transaction store of the last step, if any
    internalTxs,  \* InternalTx rows
    decodedTxs,   \* InternalTxDecoded rows
    safeStatuses, \* SafeStatus rows
    safeContracts, \* SafeContract rows
    events,       \* EthereumEvent rows
    multisigTxs,  \* MultisigTransaction rows
    workers,      \* concurrent ingestion workers: the position of each in its call
    query         \* the query on the trace store of the last step, if any, and its result

cursorVars == <<cursor, cursorCall>>
nodeVars == <<head, chain, nodeTx>>
storeVars == <<blocks, txs, call>>
traceVars == <<internalTxs, decodedTxs, safeStatuses, safeContracts, query>>
ledgerVars == <<events, multisigTxs>>
vars == <<cursor, cursorCall, head, chain, nodeTx, blocks, txs, call,
          internalTxs, decodedTxs, safeStatuses, safeContracts, query,
          events, multisigTxs, workers>>

None == <<>>
Some(v) == <<v>>
IsNone(x) == x = <<>>
Val(x) == x[1]

(***************************************************************************)
(* Bounds of the model.                                                    *)
(***************************************************************************)
MaxBlock == 2
MaxHeight == 1
MaxHead == 6

Addresses == {"a1", "a2", "a3"}
Blocks == 0..MaxBlock
CursorValues == {None} \cup {Some(b) : b \in Blocks}

(***************************************************************************)
(* The node boundary (EthereumClientProvider).                             *)
(***************************************************************************)
CONFIRMATIONS == 6
InitialHead == CONFIRMATIONS - 1
Heights == 0..MaxHeight
Hashes == {"h1", "h2"}

\* ethereum_client.get_block(number): the block of the current chain at that
\* height.  A reorg gives the heights it replaces a new fork number, and with
\* it new hashes, gas used and timestamp.
NodeBlock(n) ==
    [number |-> n,
     hash |-> <<n, chain[n]>>,
     parentHash |-> IF n = 0 THEN <<-1, 0>> ELSE <<n - 1, chain[n - 1]>>,
     gasLimit |-> 8000000,
     gasUsed |-> 1000 * (chain[n] + 1) + n,
     timestamp |-> 15 * n + chain[n]]

\* What the node knows of a transaction hash:
\*   notfound         no receipt, no transaction
\*   pending          a receipt and a transaction, both without blockNumber
\*   receipt_only     a mined receipt, the transaction is not returned
\*   receipt_tx_pending  a mined receipt, the transaction has no blockNumber
\*   mined            receipt and transaction in the block at blockNumber
NodeTxStates ==
    {[kind |-> k, blockNumber |-> 0] :
        k \in {"notfound", "pending", "receipt_only", "receipt_tx_pending"}}
    \cup {[kind |-> "mined", blockNumber |-> n] : n \in Heights}

\* tx_receipt.get('status'): h1 succeeds, h2 fails; the receipts of the oldest
\* block carry no status for a failure.
StatusOf(h, n) ==
    IF h = "h1" THEN Some(1) ELSE IF n = 0 THEN None ELSE Some(0)
\* tx_receipt['transactionIndex']: h1 comes before h2 in the blocks of the
\* first fork and after it in the blocks of the second.
TransactionIndexOf(h, n) ==
    IF (h = "h1") = (chain[n] = 0) THEN n ELSE n + 1

\* ethereum_client.get_transaction_receipt(tx_hash): None, or the receipt.
NodeReceipt(h) ==
    LET s == nodeTx[h] IN
    IF s.kind = "notfound" THEN None
    ELSE Some([transactionHash |-> h,
               blockNumber |-> IF s.kind = "pending" THEN None
                               ELSE Some(s.blockNumber),
               gasUsed |-> <<"gasUsed", h>>,
               status |-> StatusOf(h, s.blockNumber),
               transactionIndex |-> TransactionIndexOf(h, s.blockNumber),
               logs |-> << <<"log", h>> >>])

\* ethereum_client.get_transaction(tx_hash): None, or the transaction.
NodeTransaction(h) ==
    LET s == nodeTx[h] IN
    IF s.kind \in {"notfound", "receipt_only"} THEN None
    ELSE Some([hash |-> h,
               blockNumber |-> IF s.kind = "mined" THEN Some(s.blockNumber)
                               ELSE None,
               from |-> <<"from", h>>,
               gas |-> <<"gas", h>>,
               gasPrice |-> <<"gasPrice", h>>,
               input |-> <<"input", h>>,
               nonce |-> <<"nonce", h>>,
               to |-> <<"to", h>>,
               value |-> <<"value", h>>])

\* .utils.clean_receipt_log, applied to every log of a receipt.
clean_receipt_log(log) == <<"clean", log>>
CleanLogs(logs) == [i \in DOMAIN logs |-> clean_receipt_log(logs[i])]

\* The record of a call: the operation and its arguments, its outcome (ok or
\* the exception), the numbers of the block rows it created and the hashes
\* it found stored without a block.
Call(op, hashes, number, current_block_number, result, newBlocks) ==
    [op |-> op, hashes |-> hashes, number |-> number,
     current_block_number |-> current_block_number, result |-> result,
     created |-> {b.number : b \in newBlocks \ blocks},
     placeholders |-> {h \in hashes :
                         \E t \in txs : t.tx_hash = h /\ IsNone(t.block)}]

NoCall == [op |-> "none", hashes |-> {}, number |-> None,
           current_block_number |-> None, result |-> "none",
           created |-> {}, placeholders |-> {}]

InitNode ==
    /\ head = InitialHead
    /\ chain = [n \in Heights |-> 0]
    /\ nodeTx = [h \in Hashes |-> [kind |-> "notfound", blockNumber |-> 0]]

InitStore ==
    /\ blocks = {}
    /\ txs = {}
    /\ call = NoCall

\* The chain grows by one block.
AdvanceHead ==
    /\ head < MaxHead
    /\ head' = head + 1
    /\ call' = NoCall
    /\ UNCHANGED <<ledgerVars, workers, chain, nodeTx, cursorVars, blocks, txs, traceVars>>

\* A reorg replaces the blocks from height k on by those of a second fork;
\* the node does not replace a block that is CONFIRMATIONS deep.  The model
\* follows the chain through one reorg.
Reorg(k) ==
    /\ \A n \in Heights : chain[n] = 0
    /\ head - k < CONFIRMATIONS
    /\ chain' = [n \in Heights |-> IF n >= k THEN 1 ELSE chain[n]]
    /\ call' = NoCall
    /\ UNCHANGED <<ledgerVars, workers, head, nodeTx, cursorVars, blocks, txs, traceVars>>

\* The node learns of a transaction, mines it, or drops it in a reorg.
NodeTxChange(h, s) ==
    /\ nodeTx[h] # s
    /\ nodeTx' = [nodeTx EXCEPT ![h] = s]
    /\ call' = NoCall
    /\ UNCHANGED <<ledgerVars, workers, head, chain, cursorVars, blocks, txs, traceVars>>

(***************************************************************************)
(* Block store: EthereumBlockManager, EthereumBlockQuerySet, EthereumBlock.*)
(***************************************************************************)
\* create_from_block, line 101.
IsConfirmedStrict(number, current_block_number) ==
    IF ~IsNone(current_block_number)
    THEN (Val(current_block_number) - number) > CONFIRMATIONS
    ELSE FALSE

IsConfirmedLoose(number, current_block_number) ==
    IF ~IsNone(current_block_number)
    THEN (Val(current_block_number) - number) >= CONFIRMATIONS - 1
    ELSE FALSE

IsConfirmed(number, current_block_number) ==
    IF ~IsNone(current_block_number)
    THEN (Val(current_block_number) - number) >= CONFIRMATIONS
    ELSE FALSE

BlockRow(block, current_block_number) ==
    [number |-> block.number,
     gas_limit |-> block.gasLimit,
     gas_used |-> block.gasUsed,
     timestamp |-> block.timestamp,
     block_hash |-> block.hash,
     parent_hash |-> block.parentHash,
     confirmed |-> IsConfirmed(block.number, current_block_number)]

\* The table's constraints: number is the primary key, block_hash and
\* parent_hash are unique.
BlockInsertAllowed(bs, row) ==
    \A b \in bs : /\ b.number # row.number
                  /\ b.block_hash # row.block_hash
                  /\ b.parent_hash # row.parent_hash

\* create_from_block on the rows bs: the rows afterwards and the row returned,
\* or an IntegrityError that leaves the rows as they were.
create_from_block(bs, block, current_block_number) ==
    LET row == BlockRow(block, current_block_number) IN
    IF BlockInsertAllowed(bs, row)
    THEN [ok |-> TRUE, blocks |-> bs \cup {row}, block |-> Some(row)]
    ELSE [ok |-> FALSE, blocks |-> bs, block |-> None]

BlockGetAlwaysMiss(bs, number) == {}

BlockGet(bs, number) == {b \in bs : b.number = number}

get_or_create_from_block(bs, block, current_block_number) ==
    IF BlockGet(bs, block.number) # {}
    THEN [ok |-> TRUE, blocks |-> bs,
          block |-> Some(CHOOSE b \in BlockGet(bs, block.number) : TRUE)]
    ELSE create_from_block(bs, block, current_block_number)

get_or_create_from_block_number(bs, block_number) ==
    IF BlockGet(bs, block_number) # {}
    THEN [ok |-> TRUE, blocks |-> bs,
          block |-> Some(CHOOSE b \in BlockGet(bs, block_number) : TRUE)]
    ELSE create_from_block(bs, NodeBlock(block_number), Some(head))

\* EthereumBlockQuerySet.not_confirmed: the numbers, in ascending order, are
\* those of this set.
not_confirmed(to_block_number) ==
    {b \in blocks : /\ ~b.confirmed
                    /\ (IsNone(to_block_number) \/ b.number <= Val(to_block_number))}

\* EthereumBlock.set_confirmed.
SetConfirmedRow(b) == [b EXCEPT !.confirmed = TRUE]

BlockResult(r) == IF r.ok THEN "ok" ELSE "IntegrityError"

GetOrCreateFromBlockNumber ==
    \E n \in Heights :
    \E r \in {get_or_create_from_block_number(blocks, n)} :
        /\ blocks' = r.blocks
        /\ call' = Call("get_or_create_from_block_number", {}, Some(n),
                         Some(head), BlockResult(r), r.blocks)
        /\ UNCHANGED <<ledgerVars, workers, txs, nodeVars, cursorVars, traceVars>>

GetOrCreateFromBlock ==
    \E n \in Heights, cbn \in {None, Some(head)} :
    \E r \in {get_or_create_from_block(blocks, NodeBlock(n), cbn)} :
        /\ blocks' = r.blocks
        /\ call' = Call("get_or_create_from_block", {}, Some(n), cbn,
                         BlockResult(r), r.blocks)
        /\ UNCHANGED <<ledgerVars, workers, txs, nodeVars, cursorVars, traceVars>>

SetConfirmed ==
    \E b \in blocks :
        /\ blocks' = (blocks \ {b}) \cup {SetConfirmedRow(b)}
        /\ call' = Call("set_confirmed", {}, Some(b.number), None, "ok", blocks)
        /\ UNCHANGED <<ledgerVars, workers, txs, nodeVars, cursorVars, traceVars>>

ReorgStep == \E k \in Heights : Reorg(k)


(***************************************************************************)
(* Transaction store: EthereumTxManager, EthereumTx.                       *)
(***************************************************************************)
TxGet(ts, tx_hash) == {t \in ts : t.tx_hash = tx_hash}

\* create_from_tx_dict: the row built from a transaction of the node, its
\* receipt (or None) and its block row (or None).
TxRow(tx, tx_receipt, ethereum_block) ==
    [block |-> IF IsNone(ethereum_block) THEN None
               ELSE Some(Val(ethereum_block).number),
     tx_hash |-> tx.hash,
     _from |-> tx.from,
     gas |-> tx.gas,
     gas_price |-> tx.gasPrice,
     gas_used |-> IF IsNone(tx_receipt) THEN None
                  ELSE Some(Val(tx_receipt).gasUsed),
     logs |-> IF IsNone(tx_receipt) THEN None
              ELSE Some(CleanLogs(Val(tx_receipt).logs)),
     status |-> IF IsNone(tx_receipt) THEN None ELSE Val(tx_receipt).status,
     transaction_index |-> IF IsNone(tx_receipt) THEN None
                           ELSE Some(Val(tx_receipt).transactionIndex),
     data |-> tx.input,
     nonce |-> tx.nonce,
     to |-> tx.to,
     value |-> tx.value]

\* tx_hash is the primary key: a second row with the hash is an
\* IntegrityError.
create_from_tx_dict(ts, tx, tx_receipt, ethereum_block) ==
    IF TxGet(ts, tx.hash) = {}
    THEN [ok |-> TRUE, txs |-> ts \cup {TxRow(tx, tx_receipt, ethereum_block)}]
    ELSE [ok |-> FALSE, txs |-> ts]

\* __update_with_receipt_and_block: the row after the call.
UpdateClobbersValue(ethereum_tx, ethereum_block, tx_receipt) ==
    IF IsNone(ethereum_tx.block)
    THEN [ethereum_tx EXCEPT
            !.block = Some(ethereum_block.number),
            !.gas_used = Some(tx_receipt.gasUsed),
            !.logs = Some(CleanLogs(tx_receipt.logs)),
            !.status = tx_receipt.status,
            !.transaction_index = Some(tx_receipt.transactionIndex),
            !.value = <<"value", "receipt">>]
    ELSE ethereum_tx

update_with_receipt_and_block(ethereum_tx, ethereum_block, tx_receipt) ==
    IF IsNone(ethereum_tx.block)
    THEN [ethereum_tx EXCEPT
            !.block = Some(ethereum_block.number),
            !.gas_used = Some(tx_receipt.gasUsed),
            !.logs = Some(CleanLogs(tx_receipt.logs)),
            !.status = tx_receipt.status,
            !.transaction_index = Some(tx_receipt.transactionIndex)]
    ELSE ethereum_tx

\* OrderedDict.fromkeys(tx_hashes): the hashes in order of first occurrence.
RECURSIVE FromKeys(_)
FromKeys(tx_hashes) ==
    IF tx_hashes = <<>> THEN <<>>
    ELSE LET front == FromKeys(SubSeq(tx_hashes, 1, Len(tx_hashes) - 1))
             last == tx_hashes[Len(tx_hashes)]
         IN IF \E i \in DOMAIN front : front[i] = last THEN front
            ELSE Append(front, last)

\* Lines 156-161: the hashes with no mined row in the database.
TxHashesNotInDb(ts, tx_hashes) ==
    SelectSeq(FromKeys(tx_hashes),
              LAMBDA h : ~\E t \in TxGet(ts, h) : ~IsNone(t.block))

\* A batch fetch returns None for the items of `nulls`; the singular fetch is
\* tried again for those (lines 170 and 182).
Retried(batchItem, single) == IF IsNone(batchItem) THEN single ELSE batchItem
BatchReceipt(h, nulls) == IF h \in nulls THEN None ELSE NodeReceipt(h)
BatchTransaction(h, nulls) == IF h \in nulls THEN None ELSE NodeTransaction(h)

\* Lines 167-177 and 179-188: the exception of the first item that fails.
FetchProblemSwapped(item) ==
    IF IsNone(item) THEN "TransactionWithoutBlockException"
    ELSE IF IsNone(Val(item).blockNumber) THEN "TransactionNotFoundException"
    ELSE "ok"

FetchProblem(item) ==
    IF IsNone(item) THEN "TransactionNotFoundException"
    ELSE IF IsNone(Val(item).blockNumber) THEN "TransactionWithoutBlockException"
    ELSE "ok"

FirstProblem(items) ==
    IF \E i \in DOMAIN items : FetchProblem(items[i]) # "ok"
    THEN FetchProblem(items[CHOOSE i \in DOMAIN items :
                               /\ FetchProblem(items[i]) # "ok"
                               /\ \A j \in 1..(i - 1) : FetchProblem(items[j]) = "ok"])
    ELSE "ok"

\* Lines 193-203, one pass of the loop per item <<tx, tx_receipt, block>>; tx
\* is the item of the batch fetch, not the retried one.
RECURSIVE IngestLoop(_, _, _)
IngestLoop(items, bs, ts) ==
    IF items = <<>> THEN [blocks |-> bs, txs |-> ts, result |-> "ok"]
    ELSE
      LET it == Head(items)
          b == get_or_create_from_block(bs, it.block, Some(head))
      IN
      IF ~b.ok THEN [blocks |-> bs, txs |-> ts, result |-> "IntegrityError"]
      ELSE IF IsNone(it.tx)
      THEN [blocks |-> b.blocks, txs |-> ts, result |-> "TypeError"]
      ELSE
        LET stored == TxGet(ts, Val(it.tx).hash) IN
        IF stored # {}
        THEN LET old == CHOOSE t \in stored : TRUE
                 new == update_with_receipt_and_block(old, Val(b.block),
                                                      Val(it.tx_receipt))
             IN IngestLoop(Tail(items), b.blocks, (ts \ {old}) \cup {new})
        ELSE LET c == create_from_tx_dict(ts, Val(it.tx), it.tx_receipt, b.block)
             IN IngestLoop(Tail(items), b.blocks, c.txs)

create_or_update_from_tx_hashes(tx_hashes, receiptNulls, txNulls) ==
    LET missing == TxHashesNotInDb(txs, tx_hashes)
        tx_receipts == [i \in DOMAIN missing |->
                          Retried(BatchReceipt(missing[i], receiptNulls),
                                  NodeReceipt(missing[i]))]
        batchTxs == [i \in DOMAIN missing |->
                          BatchTransaction(missing[i], txNulls)]
        retriedTxs == [i \in DOMAIN missing |->
                          Retried(batchTxs[i], NodeTransaction(missing[i]))]
        unchanged == [blocks |-> blocks, txs |-> txs]
    IN
    IF missing = <<>> THEN [blocks |-> blocks, txs |-> txs, result |-> "ok"]
    ELSE IF FirstProblem(tx_receipts) # "ok"
    THEN [blocks |-> blocks, txs |-> txs, result |-> FirstProblem(tx_receipts)]
    ELSE IF FirstProblem(retriedTxs) # "ok"
    THEN [blocks |-> blocks, txs |-> txs, result |-> FirstProblem(retriedTxs)]
    ELSE IngestLoop([i \in DOMAIN missing |->
                        [tx |-> batchTxs[i],
                         tx_receipt |-> tx_receipts[i],
                         block |-> NodeBlock(Val(Val(retriedTxs[i]).blockNumber))]],
                    blocks, txs)

\* create_or_update_from_tx_hash.  A receipt that is None fails at
\* tx_receipt['blockNumber']; a receipt without block number reaches the node
\* client with number None, which it rejects.
CreateOrUpdateRefreshesLinked(tx_hash) ==
    LET stored == TxGet(txs, tx_hash)
        tx_receipt == NodeReceipt(tx_hash)
    IN
    IF stored # {} /\ ~IsNone(tx_receipt)
    THEN [blocks |-> blocks,
          txs |-> (txs \ stored) \cup
                  {[t EXCEPT !.block = Val(tx_receipt).blockNumber,
                             !.transaction_index =
                                 Some(Val(tx_receipt).transactionIndex)] :
                      t \in stored},
          result |-> "ok"]
    ELSE [blocks |-> blocks, txs |-> txs, result |-> "ok"]

create_or_update_from_tx_hash(tx_hash) ==
    LET stored == TxGet(txs, tx_hash)
        tx_receipt == NodeReceipt(tx_hash)
        tx == NodeTransaction(tx_hash)
        fail(e) == [blocks |-> blocks, txs |-> txs, result |-> e]
    IN
    IF stored # {} /\ ~IsNone((CHOOSE t \in stored : TRUE).block)
    THEN fail("ok")
    ELSE IF IsNone(tx_receipt) THEN fail("TypeError")
    ELSE IF IsNone(Val(tx_receipt).blockNumber) THEN fail("Error")
    ELSE
      LET b == get_or_create_from_block_number(blocks,
                                               Val(Val(tx_receipt).blockNumber))
      IN
      IF ~b.ok THEN fail("IntegrityError")
      ELSE IF stored # {}
      THEN LET old == CHOOSE t \in stored : TRUE
               new == update_with_receipt_and_block(old, Val(b.block),
                                                    Val(tx_receipt))
           IN [blocks |-> b.blocks, txs |-> (txs \ {old}) \cup {new},
               result |-> "ok"]
      ELSE IF IsNone(tx)
      THEN [blocks |-> b.blocks, txs |-> txs, result |-> "TypeError"]
      ELSE [blocks |-> b.blocks,
            txs |-> create_from_tx_dict(txs, Val(tx), tx_receipt, b.block).txs,
            result |-> "ok"]

\* The batches asked for: every order of one or two hashes, a hash twice
\* included.
Batches == UNION {[1..n -> Hashes] : n \in {1, 2}}
Range(f) == {f[i] : i \in DOMAIN f}

\* The items a batch fetch of the node may answer with None: any of them, or,
\* from a node that answers every item, none.
BatchNulls(tx_hashes, flaky) == IF flaky THEN SUBSET Range(tx_hashes) ELSE {{}}

IngestBatch(flaky) ==
    \E tx_hashes \in Batches :
    \E receiptNulls \in BatchNulls(tx_hashes, flaky),
       txNulls \in BatchNulls(tx_hashes, flaky) :
    \E r \in {create_or_update_from_tx_hashes(tx_hashes, receiptNulls, txNulls)} :
        /\ blocks' = r.blocks
        /\ txs' = r.txs
        /\ call' = Call("create_or_update_from_tx_hashes", Range(tx_hashes), None,
                         Some(head), r.result, r.blocks)
        /\ UNCHANGED <<ledgerVars, workers, nodeVars, cursorVars, traceVars>>

CreateOrUpdateFromTxHashes == IngestBatch(TRUE)

CreateOrUpdateFromTxHashesNoNulls == IngestBatch(FALSE)

CreateOrUpdateFromTxHash ==
    \E tx_hash \in Hashes :
    \E r \in {create_or_update_from_tx_hash(tx_hash)} :
        /\ blocks' = r.blocks
        /\ txs' = r.txs
        /\ call' = Call("create_or_update_from_tx_hash", {tx_hash}, None,
                         Some(head), r.result, r.blocks)
        /\ UNCHANGED <<ledgerVars, workers, nodeVars, cursorVars, traceVars>>

\* A transaction seen before it is mined is stored by create_from_tx_dict(tx)
\* alone: no receipt, no block.
CreateFromTxDict ==
    \E tx_hash \in Hashes :
        /\ ~IsNone(NodeTransaction(tx_hash))
        /\ LET r == create_from_tx_dict(txs, Val(NodeTransaction(tx_hash)), None, None) IN
           /\ txs' = r.txs
           /\ call' = Call("create_from_tx_dict", {tx_hash}, None, None,
                            IF r.ok THEN "ok" ELSE "IntegrityError", blocks)
        /\ UNCHANGED <<ledgerVars, workers, blocks, nodeVars, cursorVars, traceVars>>

\* h1 goes through every answer of the node; the other hashes are unknown,
\* pending or mined in the last block.
NodeTxStatesOf(h) ==
    IF h = "h1" THEN NodeTxStates
    ELSE {s \in NodeTxStates :
            \/ s.kind \in {"notfound", "pending"}
            \/ s.kind = "mined" /\ s.blockNumber = MaxHeight}

NodeTxStep ==
    \E h \in Hashes : \E s \in NodeTxStatesOf(h) : NodeTxChange(h, s)

(***************************************************************************)
(* Internal-transaction store: InternalTxManager, InternalTxQuerySet,      *)
(* InternalTx, InternalTxDecoded, SafeStatus.                              *)
(***************************************************************************)
MaxInternalTxs == 3
MaxNonce == 1

\* dict.get(key), dict.get(key, default) and Python's `a or b` on a value
\* that may be None; falsy is the empty value of the type.
Get(d, k) == IF k \in DOMAIN d THEN Some(d[k]) ELSE None
GetDefault(d, k, default) == IF k \in DOMAIN d THEN d[k] ELSE default
Or(a, b, falsy) == IF ~IsNone(a) /\ Val(a) # falsy THEN a ELSE b

\* str.upper() and str.lower() on the type names a node reports.
Upper(s) ==
    CASE s = "call" -> "CALL"
      [] s = "create" -> "CREATE"
      [] s = "suicide" -> "SUICIDE"
      [] OTHER -> s

Lower(s) ==
    CASE s = "CALL" -> "call"
      [] s = "DELEGATECALL" -> "delegatecall"
      [] s = "STATICCALL" -> "staticcall"
      [] OTHER -> s

\* EthereumTxType.parse: the value of the enum, or ValueError.
EthereumTxType_parse(tx_type) ==
    CASE Upper(tx_type) = "CALL" -> Some(0)
      [] Upper(tx_type) = "CREATE" -> Some(1)
      [] Upper(tx_type) = "SUICIDE" -> Some(2)
      [] OTHER -> None

EthereumTxCallType_CALL == 0
EthereumTxCallType_DELEGATE_CALL == 1

\* EthereumTxCallType.parse_call_type: the value of the enum, or None.
parse_call_type(call_type) ==
    IF IsNone(call_type) \/ Val(call_type) = "" THEN None
    ELSE IF Lower(Val(call_type)) = "call" THEN Some(EthereumTxCallType_CALL)
    ELSE IF Lower(Val(call_type)) = "delegatecall"
    THEN Some(EthereumTxCallType_DELEGATE_CALL)
    ELSE None

\* A string is the sequence of its characters.  str(n) is the decimal numeral
\* of n, ','.join puts a comma between the numerals.
Digits == <<"0", "1", "2", "3", "4", "5", "6", "7", "8", "9">>

RECURSIVE str(_)
str(n) ==
    IF n < 10 THEN <<Digits[n + 1]>>
    ELSE str(n \div 10) \o <<Digits[(n % 10) + 1]>>

RECURSIVE Join(_, _)
Join(sep, parts) ==
    IF parts = <<>> THEN <<>>
    ELSE IF Len(parts) = 1 THEN parts[1]
    ELSE parts[1] \o <<sep>> \o Join(sep, Tail(parts))

trace_address_to_str(trace_address) ==
    Join(",", [i \in DOMAIN trace_address |-> str(trace_address[i])])

\* The code point of a character, and the order of two strings in a
\* CharField: by code point, character by character, a prefix first.
Ord(c) ==
    IF c = "," THEN 44
    ELSE 48 + ((CHOOSE i \in DOMAIN Digits : Digits[i] = c) - 1)

StrLess(a, b) ==
    \E i \in DOMAIN b :
        /\ \A j \in 1..(i - 1) : j <= Len(a) /\ a[j] = b[j]
        /\ (i > Len(a) \/ Ord(a[i]) < Ord(b[i]))

\* The key of an InternalTx row: unique_together (ethereum_tx, trace_address).
InternalTxKey(it) == <<it.ethereum_tx, it.trace_address>>

\* (trace.get('result') or {})
ResultOrEmpty(trace) ==
    IF IsNone(Get(trace, "result")) \/ IsNone(trace.result)
    THEN [k \in {} |-> None]
    ELSE Val(trace.result)

\* build_from_trace and the defaults of get_or_create_from_trace: the row of
\* a trace of the transaction ethereum_tx.
InternalTxRow(trace, ethereum_tx) ==
    [ethereum_tx |-> ethereum_tx.tx_hash,
     trace_address |-> trace_address_to_str(trace.traceAddress),
     _from |-> Get(trace.action, "from"),
     gas |-> GetDefault(trace.action, "gas", 0),
     data |-> Or(Get(trace.action, "input"), Get(trace.action, "init"), <<>>),
     to |-> Or(Get(trace.action, "to"), Get(trace.action, "address"), ""),
     value |-> Val(Or(Get(trace.action, "value"),
                      Some(GetDefault(trace.action, "balance", 0)), 0)),
     gas_used |-> GetDefault(ResultOrEmpty(trace), "gasUsed", 0),
     contract_address |-> Get(ResultOrEmpty(trace), "address"),
     code |-> Get(ResultOrEmpty(trace), "code"),
     output |-> Get(ResultOrEmpty(trace), "output"),
     refund_address |-> Get(trace.action, "refundAddress"),
     tx_type |-> Val(EthereumTxType_parse(trace.type)),
     call_type |-> parse_call_type(Get(trace.action, "callType")),
     error |-> Get(trace, "error")]

GetOrCreateAlwaysCreates(its, trace, ethereum_tx) ==
    [internal_tx |-> InternalTxRow(trace, ethereum_tx), created |-> TRUE,
     internalTxs |-> its \cup {InternalTxRow(trace, ethereum_tx)}]

\* get_or_create_from_trace on the rows its: the row of the key if there is
\* one, else the new row; with the rows afterwards and whether it was created.
get_or_create_from_trace(its, trace, ethereum_tx) ==
    LET row == InternalTxRow(trace, ethereum_tx)
        found == {it \in its : InternalTxKey(it) = InternalTxKey(row)}
    IN IF found # {}
       THEN [internal_tx |-> CHOOSE it \in found : TRUE, created |-> FALSE,
             internalTxs |-> its]
       ELSE [internal_tx |-> row, created |-> TRUE,
             internalTxs |-> its \cup {row}]

\* The transaction row a foreign key ethereum_tx points to.
TxOf(tx_hash) == CHOOSE t \in txs : t.tx_hash = tx_hash

\* The internal transaction a one-to-one key internal_tx points to.
InternalTxOf(key) == CHOOSE it \in internalTxs : InternalTxKey(it) = key

\* InternalTxQuerySet.can_be_decoded: filter(call_type=DELEGATE_CALL,
\* error=None, ethereum_tx__status=1, decoded_tx=None).exclude(data=None).
CanBeDecodedAnyStatus ==
    {it \in internalTxs :
        /\ it.call_type = Some(EthereumTxCallType_DELEGATE_CALL)
        /\ IsNone(it.error)
        /\ ~IsNone(TxOf(it.ethereum_tx).status)
        /\ ~\E d \in decodedTxs : d.internal_tx = InternalTxKey(it)
        /\ ~IsNone(it.data)}

can_be_decoded ==
    {it \in internalTxs :
        /\ it.call_type = Some(EthereumTxCallType_DELEGATE_CALL)
        /\ IsNone(it.error)
        /\ TxOf(it.ethereum_tx).status = Some(1)
        /\ ~\E d \in decodedTxs : d.internal_tx = InternalTxKey(it)
        /\ ~IsNone(it.data)}

\* The property InternalTx.can_be_decoded: is_delegate_call and not error and
\* data and ethereum_tx.success, by Python's truthiness: an empty error
\* string and empty data are falsy, success is None without status.
InternalTx_can_be_decoded(it) ==
    LET is_delegate_call ==
            /\ ~IsNone(it.call_type)
            /\ Val(it.call_type) = EthereumTxCallType_DELEGATE_CALL
        success ==
            IF IsNone(TxOf(it.ethereum_tx).status) THEN None
            ELSE Some(Val(TxOf(it.ethereum_tx).status) = 1)
    IN  /\ is_delegate_call
        /\ IsNone(it.error) \/ Val(it.error) = ""
        /\ ~IsNone(it.data) /\ Val(it.data) # <<>>
        /\ ~IsNone(success) /\ Val(success)

\* filter(ethereum_tx=...).order_by('trace_address'): the rows of one
\* transaction as a list, ascending by the stored string.
RECURSIVE OrderByTraceAddress(_)
OrderByTraceAddress(rows) ==
    IF rows = {} THEN <<>>
    ELSE LET first == CHOOSE r \in rows :
                        \A o \in rows \ {r} :
                            StrLess(r.trace_address, o.trace_address)
         IN <<first>> \o OrderByTraceAddress(rows \ {first})

InternalTxsOf(tx_hash) ==
    OrderByTraceAddress({it \in internalTxs : it.ethereum_tx = tx_hash})

\* traces.index(self.trace_address), counting from 1.
IndexOf(internal_txs, internal_tx) ==
    CHOOSE i \in DOMAIN internal_txs :
        internal_txs[i].trace_address = internal_tx.trace_address

\* get_next_trace: internal_txs[index + 1], None on IndexError.
get_next_trace(internal_tx) ==
    LET internal_txs == InternalTxsOf(internal_tx.ethereum_tx)
        index == IndexOf(internal_txs, internal_tx)
    IN IF index + 1 \in DOMAIN internal_txs
       THEN [raised |-> "none", value |-> Some(InternalTxKey(internal_txs[index + 1]))]
       ELSE [raised |-> "none", value |-> None]

\* get_previous_trace: internal_txs[index - 1], None on IndexError.  For the
\* first row the index is -1: QuerySet.__getitem__ rejects a negative index
\* with an assert statement (AssertionError); where assert statements are not
\* executed it goes on to index the fetched list, whose [-1] is the last
\* row.  No case raises IndexError.  The set of the outcomes.
get_previous_trace(internal_tx) ==
    LET internal_txs == InternalTxsOf(internal_tx.ethereum_tx)
        index == IndexOf(internal_txs, internal_tx)
    IN IF index - 1 \in DOMAIN internal_txs
       THEN {[raised |-> "none",
              value |-> Some(InternalTxKey(internal_txs[index - 1]))]}
       ELSE {[raised |-> "AssertionError", value |-> None],
             [raised |-> "none",
              value |-> Some(InternalTxKey(internal_txs[Len(internal_txs)]))]}

\* A nullable column in a descending order: PostgreSQL puts NULL first.
NullableGreater(x, y) ==
    IF IsNone(x) THEN ~IsNone(y) ELSE ~IsNone(y) /\ Val(x) > Val(y)

\* sorted_by_internal_tx within one address: s comes before o when it is
\* greater by (block_id, transaction_index, trace_address).
SortedBefore(s, o) ==
    LET st == TxOf(s.internal_tx[1])
        ot == TxOf(o.internal_tx[1])
    IN \/ NullableGreater(st.block, ot.block)
       \/ /\ st.block = ot.block
          /\ \/ NullableGreater(st.transaction_index, ot.transaction_index)
             \/ /\ st.transaction_index = ot.transaction_index
                /\ StrLess(o.internal_tx[2], s.internal_tx[2])

\* last_for_every_address: DISTINCT ON (address) over sorted_by_internal_tx
\* keeps the first row of every address.
last_for_every_address ==
    {s \in safeStatuses :
        \A o \in safeStatuses :
            (o.address = s.address /\ o # s) => SortedBefore(s, o)}

\* last_for_address: the row of the address, or None.
last_for_address(address) ==
    LET found == {s \in last_for_every_address : s.address = address}
    IN IF found = {} THEN None ELSE Some(CHOOSE s \in found : TRUE)

\* SafeStatus.store_new: the primary key of the instance becomes the internal
\* transaction and save() writes the row of that key.
store_new(safe_status, internal_tx) ==
    LET row == [safe_status EXCEPT !.internal_tx = InternalTxKey(internal_tx)]
    IN {s \in safeStatuses : s.internal_tx # row.internal_tx} \cup {row}

SafeAddresses == {"s1", "s2"}

\* The instance store_new is called on: the status of a Safe, as read from
\* its last snapshot or built for its first one.
SafeStatusOf(address) ==
    IF IsNone(last_for_address(address))
    THEN [internal_tx |-> <<"", <<>>>>, address |-> address, owners |-> <<"o1">>,
          threshold |-> IF address = "s1" THEN 1 ELSE 2, nonce |-> 0,
          master_copy |-> "m1"]
    ELSE Val(last_for_address(address))

\* The traces of a node.  A call has callType, from, gas, input, to and
\* value; a create has init; a suicide has address, balance, refundAddress.
TraceAddresses == {<<>>, <<2>>, <<10>>, <<2, 10>>}

CallTrace(callType, input, error, traceAddress) ==
    [type |-> "call",
     action |-> [callType |-> callType, from |-> "s1", gas |-> 21000,
                 input |-> input, to |-> "m1", value |-> 0],
     result |-> IF IsNone(error) THEN Some([gasUsed |-> 100, output |-> <<>>])
                ELSE None,
     traceAddress |-> traceAddress]
    @@ (IF IsNone(error) THEN <<>> ELSE [error |-> Val(error)])

CreateTrace(init, traceAddress) ==
    [type |-> "create",
     action |-> [from |-> "s1", gas |-> 21000, init |-> init, value |-> 0],
     result |-> Some([gasUsed |-> 100, address |-> "c1", code |-> <<"code">>]),
     traceAddress |-> traceAddress]

SuicideTrace(traceAddress) ==
    [type |-> "suicide",
     action |-> [address |-> "c1", balance |-> 1, refundAddress |-> "s1"],
     result |-> None,
     traceAddress |-> traceAddress]

Payloads == {<<>>, <<"0xa9059cbb">>}

\* Traces at two places of a call tree.
StatusTraces ==
    {CallTrace("delegatecall", <<"0xa9059cbb">>, None, ta) : ta \in {<<>>, <<2>>}}

\* Traces that differ in their position in the call tree only.
OrderTraces ==
    {CallTrace("delegatecall", <<"0xa9059cbb">>, None, ta) : ta \in TraceAddresses}

\* Traces at the root of the call tree, of every kind.
DecodeTraces ==
    {CallTrace(ct, input, error, <<>>) :
        ct \in {"call", "delegatecall", "DELEGATECALL", "staticcall"},
        input \in Payloads, error \in {None, Some("Reverted"), Some("")}}
    \cup {CreateTrace(init, <<>>) : init \in Payloads}
    \cup {SuicideTrace(<<>>)}

Query(op, arg, result) == [op |-> op, arg |-> arg, result |-> result]
NoQuery == Query("none", <<>>, <<>>)

InitTraceStore ==
    /\ internalTxs = {}
    /\ decodedTxs = {}
    /\ safeStatuses = {}
    /\ safeContracts = {}
    /\ events = {}
    /\ multisigTxs = {}
    /\ workers = [w \in {"w1", "w2"} |->
                    [pc |-> "idle", op |-> "none", arg |-> None, result |-> "none"]]
    /\ query = NoQuery

GetOrCreateFromTrace(traces) ==
    \E trace \in traces, ethereum_tx \in txs :
    \E r \in {get_or_create_from_trace(internalTxs, trace, ethereum_tx)} :
        /\ r.created => Cardinality(internalTxs) < MaxInternalTxs
        /\ internalTxs' = r.internalTxs
        /\ query' = Query("get_or_create_from_trace",
                          InternalTxKey(r.internal_tx), r.created)
        /\ UNCHANGED <<ledgerVars, workers, decodedTxs, safeStatuses, nodeVars, storeVars, cursorVars, safeContracts>>

IngestOrderTrace == GetOrCreateFromTrace(OrderTraces)

IngestDecodeTrace == GetOrCreateFromTrace(DecodeTraces)

IngestStatusTrace == GetOrCreateFromTrace(StatusTraces)

\* The trace at the root of the call tree.
RootTraces == {CallTrace("delegatecall", <<"0xa9059cbb">>, None, <<>>)}

\* InternalTxDecoded.objects.create: internal_tx is the primary key.
DecodedCreate(function_names) ==
    \E it \in internalTxs, function_name \in function_names :
        /\ ~\E d \in decodedTxs : d.internal_tx = InternalTxKey(it)
        /\ decodedTxs' = decodedTxs \cup
              {[internal_tx |-> InternalTxKey(it), function_name |-> function_name,
                arguments |-> <<>>, processed |-> FALSE]}
        /\ query' = Query("create_decoded", InternalTxKey(it), TRUE)
        /\ UNCHANGED <<ledgerVars, workers, internalTxs, safeStatuses, safeContracts, nodeVars,
                       storeVars, cursorVars>>

CreateDecoded == DecodedCreate({"setup"})

CanBeDecoded ==
    /\ query' = Query("can_be_decoded", <<>>,
                      {InternalTxKey(it) : it \in can_be_decoded})
    /\ UNCHANGED <<ledgerVars, workers, internalTxs, decodedTxs, safeStatuses, nodeVars, storeVars,
                   cursorVars, safeContracts>>

GetNextTrace ==
    \E it \in internalTxs :
        /\ query' = Query("get_next_trace", InternalTxKey(it), get_next_trace(it))
        /\ UNCHANGED <<ledgerVars, workers, internalTxs, decodedTxs, safeStatuses, nodeVars, storeVars,
                       cursorVars, safeContracts>>

GetPreviousTrace ==
    \E it \in internalTxs : \E r \in get_previous_trace(it) :
        /\ query' = Query("get_previous_trace", InternalTxKey(it), r)
        /\ UNCHANGED <<ledgerVars, workers, internalTxs, decodedTxs, safeStatuses, nodeVars, storeVars,
                       cursorVars, safeContracts>>

\* The replayer reads the status of a Safe, applies an operation to it (here:
\* adds increment to the nonce) and stores it as the snapshot of the
\* operation's internal transaction.
Fold(increments) ==
    \E address \in SafeAddresses, it \in internalTxs, increment \in increments :
        /\ SafeStatusOf(address).nonce + increment <= MaxNonce
        /\ safeStatuses' =
              store_new([SafeStatusOf(address) EXCEPT !.nonce = @ + increment], it)
        /\ query' = Query("store_new", <<address, InternalTxKey(it)>>, TRUE)
        /\ UNCHANGED <<ledgerVars, workers, internalTxs, decodedTxs, nodeVars, storeVars, cursorVars,
                       safeContracts>>

StoreNew == Fold({0})

StoreNewAfterExec == Fold({0, 1})

LastForAddress ==
    \E address \in SafeAddresses :
        /\ query' = Query("last_for_address", address, last_for_address(address))
        /\ UNCHANGED <<ledgerVars, workers, internalTxs, decodedTxs, safeStatuses, nodeVars, storeVars,
                       cursorVars, safeContracts>>

(***************************************************************************)
(* Decoded operations pending for the Safes: InternalTxDecodedQuerySet,    *)
(* InternalTxDecoded, SafeContract.                                        *)
(***************************************************************************)
\* InternalTxDecodedQuerySet.not_processed.
not_processed == {d \in decodedTxs : ~d.processed}

\* The filter of pending_for_safes: the from address of the internal
\* transaction is the address of a SafeContract row, or the function is
\* 'setup'.  A NULL from address is in no set.
PendingFilterKnownOnly ==
    {d \in not_processed :
        \E c \in safeContracts :
            InternalTxOf(d.internal_tx)._from = Some(c.address)}

PendingFilter ==
    {d \in not_processed :
        \/ \E c \in safeContracts :
              InternalTxOf(d.internal_tx)._from = Some(c.address)
        \/ d.function_name = "setup"}

\* A nullable column in an ascending order: PostgreSQL puts NULL last.
NullableLess(x, y) ==
    IF IsNone(x) THEN FALSE ELSE IsNone(y) \/ Val(x) < Val(y)

\* order_by(block_id, transaction_index, trace_address): d comes before o.
PendingBefore(d, o) ==
    LET dt == TxOf(d.internal_tx[1])
        ot == TxOf(o.internal_tx[1])
    IN \/ NullableLess(dt.block, ot.block)
       \/ /\ dt.block = ot.block
          /\ \/ NullableLess(dt.transaction_index, ot.transaction_index)
             \/ /\ dt.transaction_index = ot.transaction_index
                /\ StrLess(d.internal_tx[2], o.internal_tx[2])

RECURSIVE OrderPending(_)
OrderPending(rows) ==
    IF rows = {} THEN <<>>
    ELSE LET first == CHOOSE r \in rows :
                        \A o \in rows \ {r} : PendingBefore(r, o)
         IN <<first>> \o OrderPending(rows \ {first})

\* pending_for_safes: the list of the pending rows.
pending_for_safes == OrderPending(PendingFilter)

\* InternalTxDecoded.set_processed.
set_processed(d) == [d EXCEPT !.processed = TRUE]

FunctionNames == {"setup", "execTransaction"}

\* Delegate calls made by the Safe s1 at two places of a call tree and by the
\* Safe s2 at one.
PendingTraces ==
    {[CallTrace("delegatecall", <<"0xa9059cbb">>, None, t.traceAddress)
        EXCEPT !.action.from = t.from] :
        t \in {[from |-> "s1", traceAddress |-> <<2>>],
                [from |-> "s1", traceAddress |-> <<10>>],
                [from |-> "s2", traceAddress |-> <<2>>]}}

CreateDecodedOperation == DecodedCreate(FunctionNames)

SetProcessed ==
    \E d \in decodedTxs :
        /\ decodedTxs' = (decodedTxs \ {d}) \cup {set_processed(d)}
        /\ query' = Query("set_processed", d.internal_tx, TRUE)
        /\ UNCHANGED <<ledgerVars, workers, internalTxs, safeStatuses, safeContracts, nodeVars,
                       storeVars, cursorVars>>

\* SafeContract.objects.create: address is the primary key; the Safe is
\* linked to the transaction that created it.
CreateSafeContract ==
    \E address \in SafeAddresses, ethereum_tx \in {t \in txs : t.tx_hash = "h1"} :
        /\ ~\E c \in safeContracts : c.address = address
        /\ safeContracts' = safeContracts \cup
              {[address |-> address, ethereum_tx |-> ethereum_tx.tx_hash,
                erc20_block_number |-> 0]}
        /\ query' = Query("create_safe_contract", address, TRUE)
        /\ UNCHANGED <<ledgerVars, workers, internalTxs, decodedTxs, safeStatuses, nodeVars,
                       storeVars, cursorVars>>

PendingForSafes ==
    /\ query' = Query("pending_for_safes", <<>>,
                      [i \in DOMAIN pending_for_safes |->
                          pending_for_safes[i].internal_tx])
    /\ UNCHANGED <<ledgerVars, workers, internalTxs, decodedTxs, safeStatuses, safeContracts,
                   nodeVars, storeVars, cursorVars>>

(***************************************************************************)
(* Token transfer events: EthereumEventQuerySet, EthereumEventManager,     *)
(* EthereumEvent.                                                          *)
(***************************************************************************)
MaxEvents == 2

ERC20_721_TRANSFER_TOPIC == "Transfer"

\* Decoded logs of the stored transaction h1.  The token t1 moves 1 per
\* transfer and t2 moves 2; t1 is also seen with a tokenId, with both
\* arguments, with neither, and under another topic.
DecodedEvents ==
    LET Log(i, token, topic, args) ==
            [transactionHash |-> "h1", logIndex |-> i, address |-> token,
             topics |-> <<topic>>, args |-> args]
        Parties == {<<"s2", "s1">>, <<"s1", "s2">>, <<"s1", "s1">>}
    IN  UNION {
          {Log(i, "t1", ERC20_721_TRANSFER_TOPIC,
               [from |-> p[1], to |-> p[2], value |-> 1]) : p \in Parties}
          \cup {Log(i, "t2", ERC20_721_TRANSFER_TOPIC,
                    [from |-> p[1], to |-> p[2], value |-> 2]) : p \in Parties}
          \cup {Log(i, "t1", ERC20_721_TRANSFER_TOPIC,
                    [from |-> "s2", to |-> "s1", tokenId |-> 1]),
                Log(i, "t1", ERC20_721_TRANSFER_TOPIC,
                    [from |-> "s2", to |-> "s1", value |-> 1, tokenId |-> 1]),
                Log(i, "t1", ERC20_721_TRANSFER_TOPIC,
                    [from |-> "s2", to |-> "s1"]),
                Log(i, "t1", "Approval",
                    [from |-> "s2", to |-> "s1", value |-> 1])}
          : i \in 0..(MaxEvents - 1)}

from_decoded_event(decoded_event) ==
    [ethereum_tx |-> decoded_event.transactionHash,
     log_index |-> decoded_event.logIndex,
     address |-> decoded_event.address,
     topic |-> decoded_event.topics[1],
     topics |-> decoded_event.topics,
     arguments |-> decoded_event.args]

\* The queries take optional filters: a None (falsy) filter is not applied.
\* A JSON key lookup matches no row without the key.
erc20_and_721_events(evs, token_address, address) ==
    {e \in evs :
        /\ e.topic = ERC20_721_TRANSFER_TOPIC
        /\ IsNone(token_address) \/ e.address = Val(token_address)
        /\ \/ IsNone(address)
           \/ "to" \in DOMAIN e.arguments /\ e.arguments.to = Val(address)
           \/ "from" \in DOMAIN e.arguments /\ e.arguments.from = Val(address)}

erc20_events(evs, token_address, address) ==
    {e \in erc20_and_721_events(evs, token_address, address) :
        "value" \in DOMAIN e.arguments}

Erc721EventsTopicOnly(evs, token_address, address) ==
    erc20_and_721_events(evs, token_address, address)

erc721_events(evs, token_address, address) ==
    {e \in erc20_and_721_events(evs, token_address, address) :
        "tokenId" \in DOMAIN e.arguments}

is_erc20(event) ==
    event.topic = ERC20_721_TRANSFER_TOPIC /\ "value" \in DOMAIN event.arguments

is_erc721(event) ==
    event.topic = ERC20_721_TRANSFER_TOPIC /\ "tokenId" \in DOMAIN event.arguments

\* The aggregate Sum over the rows of a group: f maps each row to its term.
RECURSIVE Sum(_)
Sum(f) ==
    IF DOMAIN f = {} THEN 0
    ELSE LET x == CHOOSE x \in DOMAIN f : TRUE
         IN  f[x] + Sum([y \in DOMAIN f \ {x} |-> f[y]])

\* erc20_tokens_with_balance(address): the ERC-20 events that name the
\* address, grouped by token address, each row counted once with -value when
\* arguments.from is the address and +value otherwise, in descending order of
\* balance.  The order of equal balances is not determined: the set of the
\* sequences the query can return.
erc20_tokens_with_balance(evs, address) ==
    LET rows == erc20_events(evs, None, Some(address))
        balance(token) ==
            Sum([e \in {x \in rows : x.address = token} |->
                    IF "from" \in DOMAIN e.arguments /\ e.arguments.from = address
                    THEN 0 - e.arguments.value
                    ELSE e.arguments.value])
        result == {[address |-> e.address, balance |-> balance(e.address)] :
                      e \in rows}
    IN  {r \in [1..Cardinality(result) -> result] :
            /\ \A i, j \in DOMAIN r : i # j => r[i] # r[j]
            /\ \A i, j \in DOMAIN r : i < j => r[i].balance >= r[j].balance}

\* An event built by from_decoded_event is inserted; (ethereum_tx, log_index)
\* is unique and ethereum_tx is a foreign key.
CreateEvent ==
    \E decoded_event \in DecodedEvents :
        LET event == from_decoded_event(decoded_event)
            key == <<event.ethereum_tx, event.log_index>>
            taken == \E e \in events : <<e.ethereum_tx, e.log_index>> = key
        IN  /\ \E tx \in txs : tx.tx_hash = event.ethereum_tx
            /\ events' = IF taken THEN events ELSE events \cup {event}
            /\ query' = Query("create_event", key,
                              IF taken THEN "IntegrityError" ELSE "created")
            /\ UNCHANGED <<multisigTxs, workers, internalTxs, decodedTxs, safeStatuses,
                           safeContracts, nodeVars, storeVars, cursorVars>>

\* get_or_create_erc20_or_721_event on the rows evs: ValueError unless the
\* arguments hold both value and tokenId (line 324); else get_or_create on
\* (ethereum_tx, log_index).
get_or_create_erc20_or_721_event(evs, decoded_event) ==
    LET event == from_decoded_event(decoded_event)
        stored == {e \in evs : /\ e.ethereum_tx = event.ethereum_tx
                               /\ e.log_index = event.log_index}
    IN  IF \/ "value" \notin DOMAIN decoded_event.args
           \/ "tokenId" \notin DOMAIN decoded_event.args
        THEN [result |-> "ValueError", events |-> evs]
        ELSE IF stored # {} THEN [result |-> "found", events |-> evs]
        ELSE [result |-> "created", events |-> evs \cup {event}]

GetOrCreateErc20Or721Event ==
    \E decoded_event \in DecodedEvents :
    \E r \in {get_or_create_erc20_or_721_event(events, decoded_event)} :
        /\ \E tx \in txs : tx.tx_hash = decoded_event.transactionHash
        /\ events' = r.events
        /\ query' = Query("get_or_create_erc20_or_721_event", decoded_event,
                          r.result)
        /\ UNCHANGED <<multisigTxs, workers, internalTxs, decodedTxs,
                       safeStatuses, safeContracts, nodeVars, storeVars,
                       cursorVars>>

EventFilters == {<<None, None>>, <<Some("t1"), None>>, <<None, Some("s1")>>}

Erc20Events ==
    \E f \in EventFilters :
        /\ query' = Query("erc20_events", f, erc20_events(events, f[1], f[2]))
        /\ UNCHANGED <<ledgerVars, workers, internalTxs, decodedTxs, safeStatuses,
                       safeContracts, nodeVars, storeVars, cursorVars>>

Erc721Events ==
    \E f \in EventFilters :
        /\ query' = Query("erc721_events", f, erc721_events(events, f[1], f[2]))
        /\ UNCHANGED <<ledgerVars, workers, internalTxs, decodedTxs, safeStatuses,
                       safeContracts, nodeVars, storeVars, cursorVars>>

Erc20TokensWithBalance ==
    \E address \in SafeAddresses :
        \E r \in erc20_tokens_with_balance(events, address) :
            /\ query' = Query("erc20_tokens_with_balance", address, r)
            /\ UNCHANGED <<ledgerVars, workers, internalTxs, decodedTxs, safeStatuses,
                           safeContracts, nodeVars, storeVars, cursorVars>>

(***************************************************************************)
(* Multisig transactions: MultisigTransactionQuerySet, MultisigTransaction.*)
(***************************************************************************)
\* executed(): exclude(ethereum_tx__block=None).  The lookup goes through a
\* LEFT OUTER JOIN: a row without a linked transaction has a NULL block.
executed(ms) ==
    {m \in ms : ~(IsNone(m.ethereum_tx) \/ IsNone(TxOf(Val(m.ethereum_tx)).block))}

NotExecutedLinkedOnly(ms) ==
    {m \in ms : ~IsNone(m.ethereum_tx) /\ IsNone(TxOf(Val(m.ethereum_tx)).block)}

\* not_executed(): filter(ethereum_tx__block=None).
not_executed(ms) ==
    {m \in ms : IsNone(m.ethereum_tx) \/ IsNone(TxOf(Val(m.ethereum_tx)).block)}

\* The property executed: bool(ethereum_tx_id and block_id is not None).
MultisigTransaction_executed(m) ==
    /\ ~IsNone(m.ethereum_tx)
    /\ Val(m.ethereum_tx) # ""
    /\ ~IsNone(TxOf(Val(m.ethereum_tx)).block)

\* A multisig transaction is stored, without a linked transaction or linked
\* to a stored one; safe_tx_hash is the primary key.
CreateMultisigTransaction ==
    \E safe_tx_hash \in {"m1", "m2", "m3"}, safe \in {"s1"},
       ethereum_tx \in {None} \cup {Some(tx.tx_hash) : tx \in txs} :
        /\ \A m \in multisigTxs : m.safe_tx_hash # safe_tx_hash
        /\ multisigTxs' = multisigTxs \cup
                {[safe_tx_hash |-> safe_tx_hash, safe |-> safe,
                  ethereum_tx |-> ethereum_tx]}
        /\ query' = Query("create_multisig_transaction", safe_tx_hash, "created")
        /\ UNCHANGED <<events, workers, internalTxs, decodedTxs, safeStatuses,
                       safeContracts, nodeVars, storeVars, cursorVars>>

\* with_confirmations_required: every row is annotated with the threshold of
\* the first SafeStatus, by sorted_reverse_by_internal_tx, whose internal
\* transaction belongs to the linked transaction; NULL without such a row.
\* The order is by address, then block, transaction index and trace_address;
\* the rows of one transaction differ in address and trace_address only, and
\* "s1" sorts before "s2".
with_confirmations_required(ms) ==
    LET threshold_query(m) ==
            {s \in safeStatuses :
                ~IsNone(m.ethereum_tx) /\ s.internal_tx[1] = Val(m.ethereum_tx)}
        Before(s, o) ==
            \/ s.address = "s1" /\ o.address = "s2"
            \/ s.address = o.address /\ StrLess(s.internal_tx[2], o.internal_tx[2])
        first(rows) == CHOOSE s \in rows : \A o \in rows \ {s} : Before(s, o)
    IN  {[safe_tx_hash |-> m.safe_tx_hash,
          confirmations_required |->
              IF threshold_query(m) = {} THEN None
              ELSE Some(first(threshold_query(m)).threshold)] : m \in ms}

WithConfirmationsRequired ==
    /\ query' = Query("with_confirmations_required", <<>>,
                      with_confirmations_required(multisigTxs))
    /\ UNCHANGED <<ledgerVars, workers, internalTxs, decodedTxs, safeStatuses,
                   safeContracts, nodeVars, storeVars, cursorVars>>

Executed ==
    /\ query' = Query("executed", <<>>, executed(multisigTxs))
    /\ UNCHANGED <<ledgerVars, workers, internalTxs, decodedTxs, safeStatuses,
                   safeContracts, nodeVars, storeVars, cursorVars>>

NotExecuted ==
    /\ query' = Query("not_executed", <<>>, not_executed(multisigTxs))
    /\ UNCHANGED <<ledgerVars, workers, internalTxs, decodedTxs, safeStatuses,
                   safeContracts, nodeVars, storeVars, cursorVars>>

(***************************************************************************)
(* Concurrent ingestion: two workers run the managers' calls, which are    *)
(* not atomic: between the read that misses and the create of one worker,  *)
(* the other may take a step.                                              *)
(***************************************************************************)
\* get_or_create_from_block_number(number) in two steps: the get of line 86,
\* and after DoesNotExist the fetch and the create of lines 88-91.
BlockWorker ==
    \E w \in DOMAIN workers :
        \/ /\ workers[w].pc = "idle"
           /\ \E number \in Heights :
                workers' = [workers EXCEPT ![w] =
                    IF BlockGet(blocks, number) # {}
                    THEN [pc |-> "idle", op |-> "get_or_create_from_block_number",
                          arg |-> Some(number), result |-> "ok"]
                    ELSE [pc |-> "create", op |-> "get_or_create_from_block_number",
                          arg |-> Some(number), result |-> "none"]]
           /\ UNCHANGED <<ledgerVars, nodeVars, storeVars, cursorVars, traceVars>>
        \/ /\ workers[w].pc = "create"
           /\ workers[w].op = "get_or_create_from_block_number"
           /\ \E r \in {create_from_block(blocks, NodeBlock(Val(workers[w].arg)),
                                          Some(head))} :
                /\ blocks' = r.blocks
                /\ workers' = [workers EXCEPT ![w].pc = "idle",
                                              ![w].result = BlockResult(r)]
           /\ UNCHANGED <<ledgerVars, nodeVars, txs, call, cursorVars, traceVars>>

\* create_or_update_from_tx_hashes([tx_hash]) in two steps: lines 153-197,
\* up to the get of the transaction, and after DoesNotExist the
\* create_from_tx_dict of line 202.  A call that does not reach line 202 is
\* one step.
TxWorker ==
    \E w \in DOMAIN workers :
        \/ /\ workers[w].pc = "idle"
           /\ \E tx_hash \in Hashes :
              \E r \in {create_or_update_from_tx_hashes(<<tx_hash>>, {}, {})} :
                LET creates == TxGet(txs, tx_hash) = {} /\ r.result = "ok" IN
                /\ blocks' = r.blocks
                /\ txs' = IF creates THEN txs ELSE r.txs
                /\ workers' = [workers EXCEPT ![w] =
                      [pc |-> IF creates THEN "create" ELSE "idle",
                       op |-> "create_or_update_from_tx_hashes",
                       arg |-> Some(tx_hash),
                       result |-> IF creates THEN "none" ELSE r.result]]
           /\ UNCHANGED <<ledgerVars, nodeVars, call, cursorVars, traceVars>>
        \/ /\ workers[w].pc = "create"
           /\ workers[w].op = "create_or_update_from_tx_hashes"
           /\ LET tx == NodeTransaction(Val(workers[w].arg))
                  tx_receipt == NodeReceipt(Val(workers[w].arg))
                  ethereum_block == CHOOSE b \in blocks :
                                        b.number = Val(Val(tx).blockNumber)
                  r == create_from_tx_dict(txs, Val(tx), tx_receipt,
                                           Some(ethereum_block))
              IN /\ txs' = r.txs
                 /\ workers' = [workers EXCEPT
                        ![w].pc = "idle",
                        ![w].result = IF r.ok THEN "ok" ELSE "IntegrityError"]
           /\ UNCHANGED <<ledgerVars, nodeVars, blocks, call, cursorVars, traceVars>>

(***************************************************************************)
(* Monitored-address scan cursor.                                          *)
(***************************************************************************)
\* A row of a MonitoredAddress table enters the store with the cursor its
\* creator gives it; the column's default is NULL.
MonitoredAddress_create(a, c) ==
    /\ a \notin DOMAIN cursor
    /\ cursor' = [x \in DOMAIN cursor \cup {a} |-> IF x = a THEN c ELSE cursor[x]]
    /\ cursorCall' = [op |-> "create", addresses |-> {a}, from_block_number |-> 0,
                      block_number |-> 0, updated |-> 0]
    /\ UNCHANGED <<ledgerVars, workers, nodeVars, storeVars, traceVars>>

\* The filter of update_addresses: address__in and <field>__gte.  A NULL
\* column satisfies no comparison.
UpdateFilterNoTolerance(addresses, from_block_number) ==
    {a \in DOMAIN cursor : /\ a \in addresses
                           /\ ~IsNone(cursor[a])
                           /\ Val(cursor[a]) >= from_block_number}

UpdateFilterNoGuard(addresses, from_block_number) ==
    {a \in DOMAIN cursor : a \in addresses /\ ~IsNone(cursor[a])}

UpdateFilterNullMatches(addresses, from_block_number) ==
    {a \in DOMAIN cursor : /\ a \in addresses
                           /\ \/ IsNone(cursor[a])
                              \/ Val(cursor[a]) >= from_block_number - 1}

UpdateFilter(addresses, from_block_number) ==
    {a \in DOMAIN cursor : /\ a \in addresses
                           /\ ~IsNone(cursor[a])
                           /\ Val(cursor[a]) >= from_block_number - 1}

\* QuerySet.update: every row of the filter gets the value; the number of
\* rows matched is returned.
update_addresses(addresses, from_block_number, block_number) ==
    LET rows == UpdateFilter(addresses, from_block_number) IN
    /\ cursor' = [a \in DOMAIN cursor |->
                    IF a \in rows THEN Some(block_number) ELSE cursor[a]]
    /\ cursorCall' = [op |-> "update_addresses", addresses |-> addresses,
                      from_block_number |-> from_block_number,
                      block_number |-> block_number,
                      updated |-> Cardinality(rows)]
    /\ UNCHANGED <<ledgerVars, workers, nodeVars, storeVars, traceVars>>

\* almost_updated and not_updated on the cursor column: <field>__lt and
\* <field>__gt; a NULL column satisfies no comparison.
almost_updated(current_block_number, updated_blocks_behind, confirmations) ==
    {a \in DOMAIN cursor :
        /\ ~IsNone(cursor[a])
        /\ Val(cursor[a]) < current_block_number - confirmations
        /\ Val(cursor[a]) > current_block_number - updated_blocks_behind}

not_updated(current_block_number, confirmations) ==
    {a \in DOMAIN cursor :
        /\ ~IsNone(cursor[a])
        /\ Val(cursor[a]) < current_block_number - confirmations}

InitCursor ==
    /\ cursor = [a \in {} |-> None]
    /\ cursorCall = [op |-> "none", addresses |-> {}, from_block_number |-> 0,
                     block_number |-> 0, updated |-> 0]

CreateMonitoredAddress ==
    \E a \in Addresses, c \in CursorValues : MonitoredAddress_create(a, c)

UpdateAddresses ==
    \E S \in SUBSET Addresses, F \in 0..(MaxBlock + 1), T \in Blocks :
        update_addresses(S, F, T)

NextCursor ==
    \/ CreateMonitoredAddress
    \/ UpdateAddresses

(***************************************************************************)
(* Specifications: one per component, over the same state.                 *)
(***************************************************************************)
Init == InitCursor /\ InitNode /\ InitStore /\ InitTraceStore

SpecCursor == Init /\ [][NextCursor]_vars

\* The block store with a node that has mined every transaction: h1 in the
\* block at height 0, h2 in the block at the last height.
InitBlocks ==
    /\ InitCursor
    /\ InitStore
    /\ InitTraceStore
    /\ head = InitialHead
    /\ chain = [n \in Heights |-> 0]
    /\ nodeTx = [h \in Hashes |->
                   [kind |-> "mined",
                    blockNumber |-> IF h = "h1" THEN 0 ELSE MaxHeight]]

NextBlocks ==
    \/ AdvanceHead
    \/ ReorgStep
    \/ GetOrCreateFromBlockNumber
    \/ GetOrCreateFromBlock
    \/ SetConfirmed
    \/ CreateOrUpdateFromTxHashesNoNulls
    \/ CreateOrUpdateFromTxHash

SpecBlocks == InitBlocks /\ [][NextBlocks]_vars

NextTxs ==
    \/ NodeTxStep
    \/ CreateFromTxDict
    \/ CreateOrUpdateFromTxHashes
    \/ CreateOrUpdateFromTxHash

SpecTxs == Init /\ [][NextTxs]_vars

\* The trace store over the transactions h1 and h2 as a completed ingestion
\* of both leaves them: h1 mined in the block at height 0, h2 in the block at
\* height h2Block.
InitIngested(h2Block) ==
    /\ InitCursor
    /\ InitTraceStore
    /\ head = InitialHead
    /\ chain = [n \in Heights |-> 0]
    /\ nodeTx = [h \in Hashes |->
                   [kind |-> "mined",
                    blockNumber |-> IF h = "h1" THEN 0 ELSE h2Block]]
    /\ call = NoCall
    /\ \E r \in {IngestLoop(
                    [i \in {1, 2} |->
                       LET h == <<"h1", "h2">>[i] IN
                       [tx |-> NodeTransaction(h),
                        tx_receipt |-> NodeReceipt(h),
                        block |-> NodeBlock(Val(Val(NodeTransaction(h)).blockNumber))]],
                    {}, {})} :
          /\ blocks = r.blocks
          /\ txs = r.txs

InitOrder == InitIngested(MaxHeight)

NextOrder ==
    \/ IngestOrderTrace
    \/ StoreNew
    \/ LastForAddress
    \/ GetNextTrace
    \/ GetPreviousTrace

SpecOrder == InitOrder /\ [][NextOrder]_vars

InitDecode == \E h2Block \in {0, MaxHeight} : InitIngested(h2Block)

NextDecode ==
    \/ IngestDecodeTrace
    \/ CreateDecoded
    \/ CanBeDecoded

SpecDecode == InitDecode /\ [][NextDecode]_vars


NextPending ==
    \/ GetOrCreateFromTrace(PendingTraces)
    \/ CreateDecodedOperation
    \/ SetProcessed
    \/ CreateSafeContract
    \/ PendingForSafes

SpecPending == InitIngested(MaxHeight) /\ [][NextPending]_vars


NextStatus ==
    \/ IngestStatusTrace
    \/ StoreNewAfterExec
    \/ LastForAddress

SpecStatus == InitIngested(MaxHeight) /\ [][NextStatus]_vars

\* Empty stores and a node that has mined h1 and h2 in the block at the last
\* height, which a reorg can replace.
InitReorg ==
    /\ InitCursor
    /\ InitStore
    /\ InitTraceStore
    /\ head = InitialHead
    /\ chain = [n \in Heights |-> 0]
    /\ nodeTx = [h \in Hashes |-> [kind |-> "mined", blockNumber |-> MaxHeight]]

NextReorg ==
    \/ ReorgStep
    \/ CreateOrUpdateFromTxHash
    \/ GetOrCreateFromTrace(RootTraces)
    \/ StoreNew

SpecReorg == InitReorg /\ [][NextReorg]_vars

\* The event table over the ingested transactions.
NextEvents ==
    \/ CreateEvent
    \/ GetOrCreateErc20Or721Event
    \/ Erc20Events
    \/ Erc721Events
    \/ Erc20TokensWithBalance

SpecEvents == InitOrder /\ [][NextEvents]_vars

\* Multisig transactions over a transaction store that holds placeholders and
\* mined transactions.
NextMultisig ==
    \/ CreateFromTxDict
    \/ CreateOrUpdateFromTxHash
    \/ CreateMultisigTransaction
    \/ Executed
    \/ NotExecuted

SpecMultisig == InitBlocks /\ [][NextMultisig]_vars

\* Two workers ingest the blocks and the transactions of a node that has
\* mined every transaction.
NextWorkers ==
    \/ BlockWorker
    \/ TxWorker

SpecWorkers == InitBlocks /\ [][NextWorkers]_vars

\* Multisig transactions over the snapshots of the Safes in the ingested
\* transactions.
NextConfirmations ==
    \/ GetOrCreateFromTrace(RootTraces)
    \/ Fold({0})
    \/ CreateMultisigTransaction
    \/ WithConfirmationsRequired

SpecConfirmations == InitIngested(MaxHeight) /\ [][NextConfirmations]_vars

(***************************************************************************)
(* Claims on the block and transaction store.                              *)
(***************************************************************************)
IngestOps == {"create_or_update_from_tx_hashes", "create_or_update_from_tx_hash"}

\* C4: an ingestion that completes, of a hash stored as an unmined placeholder
\* (block = NULL), upgrades that record: afterwards exactly one row has the
\* hash, it has the block link, gas used, logs, status and transaction index
\* of the node's receipt, the block it links is stored, and its from, value,
\* nonce, gas, gas price, to and data are those it had before.
C4_PlaceholderUpgradedInPlace ==
    [][(call'.op \in IngestOps /\ call'.result = "ok") =>
        \A h \in call'.hashes :
          \A old \in {t \in txs : t.tx_hash = h /\ IsNone(t.block)} :
            LET receipt == Val(NodeReceipt(h))
                rows == {t \in txs' : t.tx_hash = h}
            IN /\ Cardinality(rows) = 1
               /\ \A new \in rows :
                    /\ new.block = receipt.blockNumber
                    /\ ~IsNone(new.block)
                    /\ \E b \in blocks' : b.number = Val(new.block)
                    /\ new.gas_used = Some(receipt.gasUsed)
                    /\ new.logs = Some(CleanLogs(receipt.logs))
                    /\ new.status = receipt.status
                    /\ new.transaction_index = Some(receipt.transactionIndex)
                    /\ new._from = old._from
                    /\ new.value = old.value
                    /\ new.nonce = old.nonce
                    /\ new.gas = old.gas
                    /\ new.gas_price = old.gas_price
                    /\ new.to = old.to
                    /\ new.data = old.data]_vars

\* C4 witness: a batch ingestion completed that found a placeholder, which is
\* now the one row of its hash and linked to a block.
C4_Witness ==
    /\ call.op = "create_or_update_from_tx_hashes"
    /\ call.result = "ok"
    /\ \E h \in call.placeholders :
         /\ Cardinality({t \in txs : t.tx_hash = h}) = 1
         /\ \A t \in txs : t.tx_hash = h => t.block = Some(1)
         /\ \E t \in txs : t.tx_hash # h

\* The hashes of a batch that are not stored as mined, and what the node has
\* for them.
NeededHashes(hashes) ==
    {h \in hashes : ~\E t \in txs : t.tx_hash = h /\ ~IsNone(t.block)}
NodeHasNot(h) == IsNone(NodeReceipt(h)) \/ IsNone(NodeTransaction(h))
NodeHasNoBlock(h) ==
    \/ ~IsNone(NodeReceipt(h)) /\ IsNone(Val(NodeReceipt(h)).blockNumber)
    \/ ~IsNone(NodeTransaction(h)) /\ IsNone(Val(NodeTransaction(h)).blockNumber)

\* C5: create_or_update_from_tx_hashes is all-or-nothing for hash resolution.
\* If the node lacks the receipt or transaction of a requested hash that is
\* not stored as mined, or has it without block number, the call fails with
\* TransactionNotFoundException or TransactionWithoutBlockException and no
\* block row and no transaction row is created or changed; the error is
\* TransactionNotFoundException when the batch holds only missing items and
\* TransactionWithoutBlockException when it holds only items without block.
C5_BatchAllOrNothing ==
    [][call'.op = "create_or_update_from_tx_hashes" =>
        LET needed == NeededHashes(call'.hashes)
            missing == {h \in needed : NodeHasNot(h)}
            pending == {h \in needed : NodeHasNoBlock(h)}
        IN /\ (missing # {} \/ pending # {}) =>
                /\ call'.result \in {"TransactionNotFoundException",
                                     "TransactionWithoutBlockException"}
                /\ blocks' = blocks
                /\ txs' = txs
           /\ (missing # {} /\ pending = {}) =>
                call'.result = "TransactionNotFoundException"
           /\ (pending # {} /\ missing = {}) =>
                call'.result = "TransactionWithoutBlockException"
           /\ call'.result \in {"TransactionNotFoundException",
                                "TransactionWithoutBlockException"} =>
                (blocks' = blocks /\ txs' = txs)]_vars

\* C5 witness: a batch of a mined hash and a hash the node does not know has
\* failed, with a placeholder stored and no block row created.
C5_Witness ==
    /\ call.op = "create_or_update_from_tx_hashes"
    /\ call.result = "TransactionNotFoundException"
    /\ call.hashes = Hashes
    /\ \E h \in call.hashes : nodeTx[h].kind = "mined"
    /\ \E h \in call.hashes : nodeTx[h].kind = "notfound"
    /\ call.placeholders # {}
    /\ blocks = {}

\* C6: a block row created while the head handed to create_from_block is
\* currentHead has confirmed = TRUE iff currentHead - number >= 6, and
\* confirmed = FALSE when no head is handed over;
\* get_or_create_from_block_number and the ingestion of transactions hand
\* over the node's head.
C6_ConfirmedAtCreation ==
    [][\A b \in blocks' :
         (~\E old \in blocks : old.number = b.number) =>
            /\ b.number \in call'.created
            /\ IF IsNone(call'.current_block_number)
               THEN b.confirmed = FALSE
               ELSE b.confirmed = (Val(call'.current_block_number) - b.number >= 6)
            /\ call'.op # "get_or_create_from_block" =>
                 call'.current_block_number = Some(head)]_vars

\* C6 witness: get_or_create_from_block_number has just created a block six
\* below the head as confirmed, while a block five below it is stored
\* unconfirmed.
C6_Witness ==
    /\ call.op = "get_or_create_from_block_number"
    /\ \E b \in blocks : /\ b.number \in call.created
                         /\ head - b.number = 6
                         /\ b.confirmed
    /\ \E b \in blocks : head - b.number = 5 /\ ~b.confirmed

C8_BlocksOnlyFlipConfirmed ==
    [][/\ \A b \in blocks :
            \E new \in blocks' :
              /\ [new EXCEPT !.confirmed = b.confirmed] = b
              /\ b.confirmed => new.confirmed
              /\ new.confirmed # b.confirmed => call'.op = "set_confirmed"
       /\ \A b1, b2 \in blocks' : b1.number = b2.number => b1 = b2
       /\ \A n \in Heights :
            (/\ call'.op \in {"get_or_create_from_block_number",
                              "get_or_create_from_block"}
             /\ call'.number = Some(n)
             /\ \E b \in blocks : b.number = n)
            => (call'.result = "ok" /\ blocks' = blocks)]_vars

\* C8 witness: after a reorg replaced the block at height 1, a get-or-create
\* on that number returned the stored row of the replaced block, and a
\* confirmed block is stored.
C8_Witness ==
    /\ call.op \in {"get_or_create_from_block_number", "get_or_create_from_block"}
    /\ call.number = Some(1)
    /\ call.created = {}
    /\ call.result = "ok"
    /\ chain[1] = 1
    /\ \E b \in blocks : b.number = 1 /\ b.block_hash = <<1, 0>>
    /\ \E b \in blocks : b.confirmed

\* C21: when the node has the receipt and the transaction, both with a block
\* number, of every requested hash that is not stored as mined, so that the
\* singular retry of an item the batch fetch answered with None returns the
\* data, create_or_update_from_tx_hashes completes and leaves the blocks and
\* the transactions as the same call does when the batch fetch returns every
\* item.
C21_BatchNullsAreRetried ==
    [][(/\ call'.op = "create_or_update_from_tx_hashes"
        /\ \A h \in NeededHashes(call'.hashes) :
              ~NodeHasNot(h) /\ ~NodeHasNoBlock(h))
        => \E tx_hashes \in Batches :
              /\ Range(tx_hashes) = call'.hashes
              /\ LET r == create_or_update_from_tx_hashes(tx_hashes, {}, {})
                 IN /\ call'.result = r.result
                    /\ txs' = r.txs
                    /\ blocks' = r.blocks]_vars

\* C22: with two workers whose read-miss and create steps interleave, no
\* call of get_or_create_from_block_number or create_or_update_from_tx_hashes
\* fails, and the store holds at most one block row per number and one
\* transaction row per hash.
C22_ConcurrentIngestionNeverFails ==
    /\ \A w \in DOMAIN workers : workers[w].result \in {"none", "ok"}
    /\ \A a, b \in blocks : a.number = b.number => a = b
    /\ \A a, b \in txs : a.tx_hash = b.tx_hash => a = b

\* C23: a completed create_or_update_from_tx_hashes links every transaction
\* it stores or upgrades to a block row whose block hash and parent hash are
\* those of the block the node reports at that height, also when a stale
\* unconfirmed row of a replaced block was stored at the height.
C23_ReplacedBlockIsReIngested ==
    [][(call'.op = "create_or_update_from_tx_hashes" /\ call'.result = "ok") =>
        \A h \in NeededHashes(call'.hashes) :
          \A t \in {x \in txs' : x.tx_hash = h} :
            \E b \in blocks' :
              /\ t.block = Some(b.number)
              /\ b.block_hash = NodeBlock(b.number).hash
              /\ b.parent_hash = NodeBlock(b.number).parentHash]_vars

\* C27: a transaction row that has a block link keeps its block, gas used,
\* logs, status and transaction index through every later call of
\* create_or_update_from_tx_hashes and create_or_update_from_tx_hash, whatever
\* the node answers by then; and a stored transaction has a block link iff it
\* has a transaction index.
C27_LinkedTransactionIsFrozen ==
    /\ [][call'.op \in IngestOps =>
            \A t \in txs : ~IsNone(t.block) =>
                \E n \in txs' :
                    /\ n.tx_hash = t.tx_hash
                    /\ n.block = t.block
                    /\ n.gas_used = t.gas_used
                    /\ n.logs = t.logs
                    /\ n.status = t.status
                    /\ n.transaction_index = t.transaction_index]_vars
    /\ [](\A t \in txs : IsNone(t.block) <=> IsNone(t.transaction_index))

\* C27 witness: an ingestion was called for a hash whose stored row is linked
\* to another block than the one the node now reports for it.
C27_Witness ==
    /\ call.op \in IngestOps
    /\ \E h \in call.hashes : \E t \in txs :
         /\ t.tx_hash = h
         /\ ~IsNone(t.block)
         /\ nodeTx[h].kind = "mined"
         /\ t.block # Some(nodeTx[h].blockNumber)

(***************************************************************************)
(* Claims on the internal-transaction store.                               *)
(***************************************************************************)
\* The path a stored trace_address stands for, and the order of two paths in
\* the call tree: component by component as integers, a parent before its
\* children.
PathOf(trace_address) ==
    CHOOSE ta \in TraceAddresses : trace_address_to_str(ta) = trace_address

PathLess(p, q) ==
    \E i \in DOMAIN q :
        /\ \A j \in 1..(i - 1) : j <= Len(p) /\ p[j] = q[j]
        /\ (i > Len(p) \/ p[i] < q[i])

\* The key of a snapshot, (block number, transaction index, trace path), and
\* the order of two keys.
SnapshotKey(s) ==
    <<Val(TxOf(s.internal_tx[1]).block),
      Val(TxOf(s.internal_tx[1]).transaction_index),
      PathOf(s.internal_tx[2])>>

KeyLess(k1, k2) ==
    \/ k1[1] < k2[1]
    \/ k1[1] = k2[1] /\ k1[2] < k2[2]
    \/ k1[1] = k2[1] /\ k1[2] = k2[2] /\ PathLess(k1[3], k2[3])

\* C3: for every address with a snapshot, last_for_address returns the
\* snapshot of the address with the maximum key (block number, transaction
\* index, trace_address compared component-wise as integers), and a
\* store_new of a snapshot whose key is smaller than the maximum of the
\* address leaves what last_for_address reports for it unchanged.
C3_LastIsMaxKey ==
    [][/\ query'.op = "last_for_address" =>
            LET snaps == {s \in safeStatuses : s.address = query'.arg} IN
            snaps # {} =>
                /\ ~IsNone(query'.result)
                /\ Val(query'.result) \in snaps
                /\ \A s \in snaps :
                      ~KeyLess(SnapshotKey(Val(query'.result)), SnapshotKey(s))
       /\ \A address \in SafeAddresses :
            (query'.op = "store_new" /\ query'.arg[1] = address) =>
              LET snaps == {s \in safeStatuses : s.address = address}
                  new == CHOOSE s \in safeStatuses' : s.internal_tx = query'.arg[2]
              IN (\E s \in snaps : KeyLess(SnapshotKey(new), SnapshotKey(s)))
                   => last_for_address(address)' = last_for_address(address)]_vars

\* C9: can_be_decoded() returns exactly the internal transactions whose call
\* type is DELEGATECALL, whose error is null, whose data is not null, whose
\* owning transaction has status 1 and that have no Decoded record; none of
\* an owning transaction with status 0 or without status is returned.
C9_CanBeDecodedExact ==
    [][query'.op = "can_be_decoded" =>
        /\ query'.result =
             {InternalTxKey(it) : it \in
                {it \in internalTxs :
                    /\ it.call_type = Some(1)
                    /\ it.error = None
                    /\ it.data # None
                    /\ \E t \in txs : t.tx_hash = it.ethereum_tx /\ t.status = Some(1)
                    /\ \A d \in decodedTxs : d.internal_tx # InternalTxKey(it)}}
        /\ \A it \in internalTxs :
             (\E t \in txs : /\ t.tx_hash = it.ethereum_tx
                              /\ t.status \in {Some(0), None})
                => InternalTxKey(it) \notin query'.result]_vars

\* C9 witness: the query returned the delegate call of the successful
\* transaction and not the same delegate call of the failed one.
C9_Witness ==
    /\ query.op = "can_be_decoded"
    /\ \E it1, it2 \in internalTxs :
         /\ it1.ethereum_tx = "h1" /\ it2.ethereum_tx = "h2"
         /\ [it2 EXCEPT !.ethereum_tx = "h1"] = it1
         /\ TxOf("h1").status = Some(1) /\ TxOf("h2").status = Some(0)
         /\ decodedTxs = {}
         /\ query.result = {InternalTxKey(it1)}

\* C26: the property can_be_decoded and the query can_be_decoded() agree:
\* a stored internal transaction without a Decoded record is in the result of
\* the query iff its property is truthy.
C26_PropertyAgreesWithQuery ==
    [][query'.op = "can_be_decoded" =>
        \A it \in internalTxs :
            (\A d \in decodedTxs : d.internal_tx # InternalTxKey(it)) =>
                (InternalTxKey(it) \in query'.result
                    <=> InternalTx_can_be_decoded(it))]_vars

\* C10: for the internal transactions of one transaction, the order by the
\* stored trace_address (the order get_next_trace, get_previous_trace and
\* the Safe-Status sort use) is the order of the call tree: an earlier row's
\* path is smaller, component by component as integers, a parent before its
\* children.
C10_TraceOrderIsCallTreeOrder ==
    \A h \in Hashes :
        LET internal_txs == InternalTxsOf(h) IN
        \A i, j \in DOMAIN internal_txs :
            i < j => PathLess(PathOf(internal_txs[i].trace_address),
                              PathOf(internal_txs[j].trace_address))

\* C11: get_next_trace and get_previous_trace are inverse neighbours within
\* one transaction: if get_next_trace(t) returns n then get_previous_trace(n)
\* returns t, and if get_previous_trace(t) returns p then get_next_trace(p)
\* returns t.
C11_InverseNeighbors ==
    [][/\ (query'.op = "get_next_trace" /\ ~IsNone(query'.result.value)) =>
            \A r \in get_previous_trace(InternalTxOf(Val(query'.result.value))) :
                r.raised = "none" /\ r.value = Some(query'.arg)
       /\ (/\ query'.op = "get_previous_trace"
           /\ query'.result.raised = "none"
           /\ ~IsNone(query'.result.value)) =>
            get_next_trace(InternalTxOf(Val(query'.result.value))).value
                = Some(query'.arg)]_vars

\* C25: within one transaction, in the order of the stored trace_address,
\* get_previous_trace of the first internal transaction returns None without
\* raising and get_next_trace of the last returns None; for every other
\* internal transaction they return the row just before and just after it.
C25_NeighboursOrNoneAtTheEnds ==
    [][query'.op \in {"get_next_trace", "get_previous_trace"} =>
        LET internal_tx == InternalTxOf(query'.arg)
            internal_txs == InternalTxsOf(internal_tx.ethereum_tx)
            index == IndexOf(internal_txs, internal_tx)
            neighbour == IF query'.op = "get_next_trace"
                         THEN index + 1 ELSE index - 1
        IN  /\ query'.result.raised = "none"
            /\ query'.result.value =
                  IF neighbour \in DOMAIN internal_txs
                  THEN Some(InternalTxKey(internal_txs[neighbour]))
                  ELSE None]_vars

\* The place on chain of the internal transaction of a key: (block number,
\* transaction index, trace path).
ChainKey(key) ==
    <<Val(TxOf(key[1]).block), Val(TxOf(key[1]).transaction_index),
      PathOf(key[2])>>

\* C12: pending_for_safes is ordered ascending by (block number, transaction
\* index, trace_address): no operation stands in the list before an operation
\* that executed earlier on chain (earlier block, or same block and earlier
\* transaction index, or same transaction and earlier place in the call
\* tree), in particular none of the same address.
C12_PendingInChainOrder ==
    [][query'.op = "pending_for_safes" =>
        \A i, j \in DOMAIN query'.result :
            i < j => ~KeyLess(ChainKey(query'.result[j]),
                              ChainKey(query'.result[i]))]_vars

\* C13: pending_for_safes returns a decoded operation iff it is not processed
\* and (the from address of its internal transaction is a known Safe contract
\* or its function name is 'setup'), each once; a processed record is never
\* returned, and set_processed makes a record processed for good.
C13_PendingIffUnprocessedSafeOrSetup ==
    [][/\ query'.op = "pending_for_safes" =>
            /\ {query'.result[i] : i \in DOMAIN query'.result} =
                 {d.internal_tx : d \in
                    {d \in decodedTxs :
                        /\ d.processed = FALSE
                        /\ \/ \E it \in internalTxs, c \in safeContracts :
                                /\ InternalTxKey(it) = d.internal_tx
                                /\ it._from = Some(c.address)
                           \/ d.function_name = "setup"}}
            /\ \A i, j \in DOMAIN query'.result :
                 query'.result[i] = query'.result[j] => i = j
       /\ query'.op = "set_processed" =>
            \E d \in decodedTxs' : d.internal_tx = query'.arg /\ d.processed
       /\ \A d \in decodedTxs :
            d.processed => \E n \in decodedTxs' :
                              n.internal_tx = d.internal_tx /\ n.processed]_vars

\* C13 witness: the list holds a 'setup' of an address that is no known Safe,
\* and holds neither another operation of that address nor a processed
\* operation of a known Safe.
C13_Witness ==
    /\ query.op = "pending_for_safes"
    /\ \E a, b, c \in decodedTxs :
         /\ a.function_name = "setup" /\ ~a.processed
         /\ InternalTxOf(a.internal_tx)._from = Some("s2")
         /\ b.function_name # "setup" /\ ~b.processed
         /\ InternalTxOf(b.internal_tx)._from = Some("s2")
         /\ c.processed
         /\ InternalTxOf(c.internal_tx)._from = Some("s1")
         /\ {x.address : x \in safeContracts} = {"s1"}
         /\ query.result = <<a.internal_tx>>

\* C14: Safe-Status snapshots are immutable and append-only: every snapshot
\* that exists before a store_new exists afterwards with the same internal
\* transaction, address, owners, threshold, nonce and master copy, also when
\* the internal transaction of the call has a snapshot already.
C14_SnapshotsAppendOnly ==
    [][query'.op = "store_new" =>
        \A s \in safeStatuses : s \in safeStatuses']_vars

\* C15: the snapshots of an address are totally ordered by (block number,
\* transaction index, trace_address): no two distinct snapshots of one
\* address have the same key, also after a reorg replaced a block and
\* transactions of the replacement block were ingested.
C15_SnapshotKeysUnique ==
    \A s, o \in safeStatuses :
        (s # o /\ s.address = o.address) =>
            <<TxOf(s.internal_tx[1]).block,
              TxOf(s.internal_tx[1]).transaction_index, s.internal_tx[2]>>
            # <<TxOf(o.internal_tx[1]).block,
                TxOf(o.internal_tx[1]).transaction_index, o.internal_tx[2]>>

\* C16: get_or_create_from_trace is idempotent: a call for a (transaction,
\* trace_address) that is stored reports created = FALSE and changes no row; a
\* call for one that is not stored adds its row and reports created = TRUE;
\* afterwards exactly one row has the (transaction, trace_address), and no two
\* stored rows ever share one.
C16_GetOrCreateFromTraceIdempotent ==
    [][query'.op = "get_or_create_from_trace" =>
        /\ Cardinality({it \in internalTxs' :
                          <<it.ethereum_tx, it.trace_address>> = query'.arg}) = 1
        /\ IF \E it \in internalTxs :
                  <<it.ethereum_tx, it.trace_address>> = query'.arg
           THEN query'.result = FALSE /\ internalTxs' = internalTxs
           ELSE /\ query'.result = TRUE
                /\ internalTxs \subseteq internalTxs'
                /\ Cardinality(internalTxs') = Cardinality(internalTxs) + 1
        /\ \A a, b \in internalTxs' :
             (a.ethereum_tx = b.ethereum_tx /\ a.trace_address = b.trace_address)
                => a = b]_vars

\* C16 witness: a trace of a stored (transaction, trace_address) was ingested
\* again and reported created = FALSE, with two rows stored.
C16_Witness ==
    /\ query.op = "get_or_create_from_trace"
    /\ query.result = FALSE
    /\ Cardinality(internalTxs) = 2
    /\ \E it \in internalTxs : InternalTxKey(it) = query.arg

(***************************************************************************)
(* Claims on the token transfer events.                                    *)
(***************************************************************************)
HasValue(e) == "value" \in DOMAIN e.arguments
HasTokenId(e) == "tokenId" \in DOMAIN e.arguments
IsTransfer(e) == e.topic = ERC20_721_TRANSFER_TOPIC

\* C17: classification is exclusive by field.  A stored log with the transfer
\* topic, a value and no tokenId is is_erc20 and not is_erc721; with a tokenId
\* and no value it is is_erc721 and not is_erc20; with neither argument or
\* another topic it is neither.  erc20_events and erc721_events return only
\* logs of their own class among these, and without filters all of them.
C17_ClassificationExclusiveByField ==
    /\ \A e \in events :
        /\ (IsTransfer(e) /\ HasValue(e) /\ ~HasTokenId(e))
              => (is_erc20(e) /\ ~is_erc721(e))
        /\ (IsTransfer(e) /\ HasTokenId(e) /\ ~HasValue(e))
              => (is_erc721(e) /\ ~is_erc20(e))
        /\ (~IsTransfer(e) \/ (~HasValue(e) /\ ~HasTokenId(e)))
              => (~is_erc20(e) /\ ~is_erc721(e))
    /\ query.op = "erc20_events" =>
          /\ query.result \subseteq {e \in events : IsTransfer(e) /\ HasValue(e)}
          /\ query.arg = <<None, None>> =>
                {e \in events : IsTransfer(e) /\ HasValue(e)} \subseteq query.result
    /\ query.op = "erc721_events" =>
          /\ query.result \subseteq {e \in events : IsTransfer(e) /\ HasTokenId(e)}
          /\ query.arg = <<None, None>> =>
                {e \in events : IsTransfer(e) /\ HasTokenId(e)} \subseteq query.result

\* C17 witness: erc721_events without filters returned a log with a tokenId
\* while a stored transfer log with only a value was left out.
C17_Witness ==
    /\ query.op = "erc721_events"
    /\ query.arg = <<None, None>>
    /\ \E e \in query.result : HasTokenId(e) /\ ~HasValue(e)
    /\ \E e \in events \ query.result : IsTransfer(e) /\ HasValue(e)

\* C18: every row of erc20_tokens_with_balance(address) has as balance the
\* sum of value over the ERC-20 transfer events of the token with the address
\* as recipient minus the sum over those with the address as sender, and the
\* rows are in descending order of balance.
C18_BalanceIsReceivedMinusSent ==
    query.op = "erc20_tokens_with_balance" =>
        /\ \A i \in DOMAIN query.result :
              LET token == query.result[i].address
                  transfers == {e \in events : is_erc20(e) /\ e.address = token}
                  received == {e \in transfers : e.arguments.to = query.arg}
                  sent == {e \in transfers : e.arguments.from = query.arg}
              IN  query.result[i].balance =
                      Sum([e \in received |-> e.arguments.value])
                      - Sum([e \in sent |-> e.arguments.value])
        /\ \A i, j \in DOMAIN query.result :
              i < j => query.result[i].balance >= query.result[j].balance

\* C24: get_or_create_erc20_or_721_event of a decoded event whose arguments
\* hold value or tokenId does not raise and leaves exactly one stored event
\* with its transaction hash and log index; it raises ValueError, and stores
\* nothing, only for an event whose arguments hold neither.
C24_ValueErrorOnlyWithoutBothArguments ==
    [][query'.op = "get_or_create_erc20_or_721_event" =>
        LET args == query'.arg.args
            stored == {e \in events' :
                          /\ e.ethereum_tx = query'.arg.transactionHash
                          /\ e.log_index = query'.arg.logIndex}
        IN  IF "value" \in DOMAIN args \/ "tokenId" \in DOMAIN args
            THEN query'.result # "ValueError" /\ Cardinality(stored) = 1
            ELSE query'.result = "ValueError" /\ events' = events]_vars

(***************************************************************************)
(* Claims on the multisig transactions.                                    *)
(***************************************************************************)
LinkedAndMined(m) ==
    /\ ~IsNone(m.ethereum_tx)
    /\ \E tx \in txs : tx.tx_hash = Val(m.ethereum_tx) /\ ~IsNone(tx.block)

\* C20: the executed property of a multisig transaction is true iff it is
\* linked to a transaction that has a block; executed() returns exactly the
\* multisig transactions whose property is true and not_executed() exactly
\* the others, so that every multisig transaction, linked or not, is in
\* exactly one of the two queries.
C20_ExecutedIffLinkedAndMined ==
    /\ [](\A m \in multisigTxs : MultisigTransaction_executed(m) <=> LinkedAndMined(m))
    /\ [](/\ executed(multisigTxs) = {m \in multisigTxs : LinkedAndMined(m)}
          /\ not_executed(multisigTxs) = {m \in multisigTxs : ~LinkedAndMined(m)})
    /\ [][(query'.op = "executed" /\ query' # query)
            => query'.result = {m \in multisigTxs' : LinkedAndMined(m)'}]_vars
    /\ [][(query'.op = "not_executed" /\ query' # query)
            => query'.result = {m \in multisigTxs' : ~LinkedAndMined(m)'}]_vars

\* C20 witness: not_executed() returned a multisig transaction without a
\* linked transaction and one linked to an unmined transaction, and left out
\* one linked to a mined transaction.
C20_Witness ==
    /\ query.op = "not_executed"
    /\ query.result = not_executed(multisigTxs)
    /\ \E m \in query.result : IsNone(m.ethereum_tx)
    /\ \E m \in query.result :
          ~IsNone(m.ethereum_tx) /\ IsNone(TxOf(Val(m.ethereum_tx)).block)
    /\ \E m \in multisigTxs \ query.result : LinkedAndMined(m)

\* C29: the confirmations_required of a multisig transaction is null when it
\* has no linked transaction, and otherwise, when not null, the threshold of
\* a snapshot of the multisig transaction's own Safe whose internal
\* transaction belongs to the linked transaction.
C29_ConfirmationsRequiredOfOwnSafe ==
    query.op = "with_confirmations_required" =>
        \A m \in multisigTxs : \A r \in query.result :
            r.safe_tx_hash = m.safe_tx_hash =>
                IF IsNone(m.ethereum_tx) THEN IsNone(r.confirmations_required)
                ELSE IsNone(r.confirmations_required)
                     \/ \E s \in safeStatuses :
                           /\ s.address = m.safe
                           /\ s.internal_tx[1] = Val(m.ethereum_tx)
                           /\ s.threshold = Val(r.confirmations_required)

(***************************************************************************)
(* Claims on the scan cursor.                                              *)
(***************************************************************************)
\* C1: update_addresses(S, F, T) sets the cursor of every address of S whose
\* stored cursor C has C >= F-1 to T, leaves every address of S with C < F-1
\* at C, leaves every address outside S alone, and returns the number of
\* addresses whose cursor it set.
C1_UpdatePostcondition ==
    [][cursorCall'.op = "update_addresses" =>
        LET S == cursorCall'.addresses
            F == cursorCall'.from_block_number
            T == cursorCall'.block_number
            set == {a \in DOMAIN cursor :
                      a \in S /\ ~IsNone(cursor[a]) /\ Val(cursor[a]) >= F - 1}
        IN /\ DOMAIN cursor' = DOMAIN cursor
           /\ \A a \in DOMAIN cursor :
                /\ (a \in S /\ ~IsNone(cursor[a]) /\ Val(cursor[a]) >= F - 1)
                      => cursor'[a] = Some(T)
                /\ (a \in S /\ ~IsNone(cursor[a]) /\ Val(cursor[a]) < F - 1)
                      => cursor'[a] = cursor[a]
                /\ a \notin S => cursor'[a] = cursor[a]
           /\ cursorCall'.updated = Cardinality(set)]_vars

\* C1 witness: a call that set one cursor, left one address of S behind the
\* tolerance untouched, and skipped an address outside S.
C1_Witness ==
    /\ cursorCall.op = "update_addresses"
    /\ cursorCall.updated = 1
    /\ \E a, b, c \in DOMAIN cursor :
         /\ a \in cursorCall.addresses /\ cursor[a] = Some(cursorCall.block_number)
         /\ b \in cursorCall.addresses /\ ~IsNone(cursor[b])
         /\ Val(cursor[b]) < cursorCall.from_block_number - 1
         /\ c \notin cursorCall.addresses /\ ~IsNone(cursor[c])
         /\ cursor[c] # Some(cursorCall.block_number)

\* C2 as stated: no call moves a cursor backward by more than one block (a
\* change is accepted only if the new block number is >= stored cursor - 1).
C2_NoDeepRollback ==
    [][\A a \in DOMAIN cursor :
         (~IsNone(cursor[a]) /\ ~IsNone(cursor'[a]))
            => Val(cursor'[a]) >= Val(cursor[a]) - 1]_vars

\* C2 as amended: a call changes a cursor only if the stored cursor is
\* >= from_block_number - 1, and then sets it to block_number; an address whose
\* stored cursor is further behind from_block_number keeps its cursor and is
\* not counted in the returned number.
C2_GuardIsOnFromBlock ==
    [][cursorCall'.op = "update_addresses" =>
        /\ \A a \in DOMAIN cursor :
             cursor'[a] # cursor[a] =>
                /\ a \in cursorCall'.addresses
                /\ ~IsNone(cursor[a])
                /\ Val(cursor[a]) >= cursorCall'.from_block_number - 1
                /\ cursor'[a] = Some(cursorCall'.block_number)
        /\ cursorCall'.updated <=
             Cardinality({a \in DOMAIN cursor :
                 ~IsNone(cursor[a])
                 /\ Val(cursor[a]) >= cursorCall'.from_block_number - 1})]_vars

\* C2 witness: a call left an address of S unchanged whose stored cursor is
\* more than one block behind from_block_number, and updated nothing.
C2_Witness ==
    /\ cursorCall.op = "update_addresses"
    /\ cursorCall.updated = 0
    /\ \E a \in DOMAIN cursor :
         /\ a \in cursorCall.addresses
         /\ ~IsNone(cursor[a])
         /\ Val(cursor[a]) < cursorCall.from_block_number - 1
         /\ Val(cursor[a]) # cursorCall.block_number


\* C19: almost_updated and not_updated, called with the same current block
\* number and confirmations, partition the addresses that are behind: no
\* address is returned by both, and every address whose cursor is below
\* current_block_number - confirmations is returned by exactly one of them.
C19_AlmostAndNotUpdatedPartition ==
    \A current_block_number \in 0..MaxHead, confirmations \in 0..1,
       updated_blocks_behind \in 0..MaxHead :
        LET almost == almost_updated(current_block_number,
                                     updated_blocks_behind, confirmations)
            stale == not_updated(current_block_number, confirmations)
        IN  /\ almost \cap stale = {}
            /\ \A a \in DOMAIN cursor :
                  (~IsNone(cursor[a])
                   /\ Val(cursor[a]) < current_block_number - confirmations)
                     => ((a \in almost) # (a \in stale))

\* C28: update_addresses never changes a cursor that is null and does not
\* count its address as updated, whatever from_block_number and block_number
\* are; no step gives a stored address with a null cursor a cursor.
C28_NullCursorStaysNull ==
    [][/\ \A a \in DOMAIN cursor : IsNone(cursor[a]) => IsNone(cursor'[a])
       /\ cursorCall'.op = "update_addresses" =>
             cursorCall'.updated <=
                 Cardinality({a \in cursorCall'.addresses \cap DOMAIN cursor :
                                 ~IsNone(cursor[a])})]_vars

\* C28 witness: update_addresses was called for an address with a null
\* cursor and one with a cursor, and updated the second only.
C28_Witness ==
    /\ cursorCall.op = "update_addresses"
    /\ cursorCall.updated = 1
    /\ Cardinality(cursorCall.addresses) = 2
    /\ \E a \in cursorCall.addresses \cap DOMAIN cursor : IsNone(cursor[a])
    /\ \E a \in cursorCall.addresses \cap DOMAIN cursor :
         cursor[a] = Some(cursorCall.block_number)

====
